---------------------------- MODULE Spec2Model ----------------------------
(***************************************************************************)
(* Verification model of the dynamic-configuration pipeline of the router: *)
(*   - isAllowedReference / sanitizeReferences  (cross-provider references) *)
(*   - MultiProvider.Provide                    (sanitising wrapper)        *)
(*   - mergeConfiguration / applyModel          (merger and model applier)  *)
(*   - ProviderAggregator, maybeThrottledProvide (provider start, throttle) *)
(* and of two parts of its backend side:                                   *)
(*   - connPool                                 (idle connections)          *)
(*   - brotliResponseWriter, compress.ServeHTTP (compressing writer)        *)
(* and of its Kubernetes Gateway side:                                     *)
(*   - clientWrapper.Update...Status            (status writer)             *)
(*   - buildGRPCMatchRule, loadGRPCRoute        (GRPCRoute translation)     *)
(*                                                                         *)
(* Go strings are modelled as sequences of one-character strings, so that  *)
(* strings.Split, strings.Contains and concatenation are computed and not  *)
(* assumed.  Go maps are functions; the random iteration order of a Go map *)
(* is an existentially chosen permutation of the keys.                     *)
(***************************************************************************)
EXTENDS Integers, Sequences, FiniteSets, TLC

VARIABLES
    \* ---- isAllowedReference called on its own -------------------------
    refName,        \* argument name
    refPvd,         \* argument pvd
    refRes,         \* returned bool
    refPc,          \* "call" | "done"
    \* ---- sanitizeReferences ------------------------------------------
    pvd,            \* argument pvd (the source of the message)
    configuration,  \* argument configuration (the message's payload)
    conf,           \* the returned configuration
    sanPc,          \* "call" | "done" | "crashed"
    \* ---- MultiProvider.Provide ---------------------------------------
    mpPc,             \* "call" | "provided" | "failed"
    localChan,        \* the channel Provide makes, capacity 1
    configurationChan,\* the downstream channel Provide is given
    received,         \* what the downstream consumer has taken off it
    emitted,          \* number of messages the wrapped provider has sent
    fwPc,             \* the forwarding goroutine: "select" | "send" | "exit"
    fwMsg,            \* its local msg
    ctxDone,          \* the pool's context is cancelled
    \* ---- mergeConfiguration ------------------------------------------
    configurations,   \* argument: provider name -> its configuration
    defaultEntryPoints, \* argument
    merged,           \* the returned configuration
    mergePc,          \* "call" | "done"
    \* ---- applyModel --------------------------------------------------
    amCfg,            \* the argument cfg: [Routers, Models] of cfg.HTTP
    arrays,           \* the backing arrays of the models' Middlewares slices
    rts,              \* the local map rts
    amTodo,           \* router names the range loop has yet to visit
    returned,         \* cfg.HTTP.Routers of the returned configuration
    amPc,             \* "call" | "range" | "done"
    \* ---- ProviderAggregator -------------------------------------------
    configured,       \* the providers handed to AddProvider, in order
    aggregator,       \* p: [fileProvider, internalProvider, providers]
    addIdx,           \* index of the next provider to add
    rangeIdx,         \* Provide: index the range loop over p.providers is at
    goroutines,       \* providers whose safe.Go goroutine has not run yet
    invoked,          \* names of the providers in the order of their Provide
    startedPrds,      \* names of the providers whose Provide returned nil
    provideErr,       \* what ProviderAggregator.Provide returned
    aggPc,            \* "new" | "range" | "done"
    \* ---- maybeThrottledProvide ----------------------------------------
    thPrd,            \* the provider: [throttled, duration, toEmit]
    defaultDuration,  \* argument defaultDuration
    providerThrottleDuration, \* the effective throttle duration
    thPc,             \* "call" | "provided"
    rc,               \* the ring channel: <<>> or the one message it holds
    thChan,           \* configurationChan, the consumer's channel
    thEmitted,        \* number of messages the provider has sent
    thFwPc,           \* the goroutine: "none" | "select" | "send" | "sleep" | "exit"
    thFwMsg,          \* its local msg
    sleepLeft,        \* time left of its time.Sleep
    sinceDelivery,    \* time since it last delivered, -1 before the first
    lastGap,          \* time between its last two deliveries, -1 if none
    thReceived,       \* the messages the consumer has received
    thCtxDone,        \* ctx.Done() is closed
    \* ---- connPool -----------------------------------------------------
    maxIdleConn,      \* capacity of the channel idleConns
    idleConnTimeout,  \* c.idleConnTimeout, in clock ticks
    conns,            \* every *conn dialed so far, by number
    idleConns,        \* the channel c.idleConns
    clients,          \* the goroutines that call AcquireConn and ReleaseConn
    dials,            \* per client, its askForNewConn goroutine
    janitor,          \* the cleaning goroutine: [pc, co]
    sweep,            \* observer of cleanIdleConns, see NoSweep
    \* ---- brotliResponseWriter -----------------------------------------
    brw,              \* the brotliResponseWriter of one request
    rw,               \* the http.ResponseWriter it wraps (b.rw)
    bw,               \* the brotli encoder (b.bw), which writes to rw
    handler,          \* the next handler: its calls and the body it wrote
    \* ---- compress middleware -------------------------------------------
    compressConf,     \* the compress made by New: [excludes, minSize]
    req,              \* the request: [method, contentType, acceptEncoding]
    route,            \* the handler ServeHTTP hands the request to
    \* ---- clientWrapper status updates ---------------------------------
    stKind,           \* the kind of the object whose status is updated
    stWatched,        \* c.isWatchedNamespace of the object's namespace
    stArg,            \* argument status
    objects,          \* objects[1] is the lister's object, objects[2] a copy
    stPc,             \* "call" | "retry" | "done"
    stAttempts,       \* calls of the function RetryOnConflict retries
    stReads,          \* calls of the lister's Get
    stWrites,         \* calls of UpdateStatus
    stLast,           \* the last UpdateStatus call: [obj, read, status, result]
    stErr,            \* what the update has returned
    stSynced,         \* the informer has replaced the lister's object
    \* ---- buildGRPCMatchRule -------------------------------------------
    gmHostnames,      \* argument hostnames
    gmMatch,          \* argument match
    gmRule,           \* the rule returned
    gmPc,             \* "call" | "done"
    \* ---- loadGRPCRoute ------------------------------------------------
    grListener,       \* argument listener
    grHostnames,      \* argument hostnames
    grRules,          \* the rules of the route that the loop has come to
    grMi,             \* matches of the last of them that have their router
    grConf,           \* conf.HTTP
    grCondition,      \* condition
    grPc,             \* "rules" | "matches" | "done"
    \* ---- loadGRPCMiddlewares ------------------------------------------
    mwFilters,        \* argument filters
    mwRes,            \* what the call has returned
    mwPc,             \* "call" | "done"
    \* ---- the peers of the pool's connections --------------------------
    peerClosed,       \* the connections that their peer has closed
    \* ---- conn.active and the time of the last ReleaseConn -------------
    active,         \* per connection: the field active of the conn
    sinceRelease,   \* per connection: ticks since its last ReleaseConn, or
                    \* since its dial when it was never released
    \* ---- loadGRPCBackendRef called on its own --------------------------
    bkRef,            \* the backendRef, with what the cluster answers for it
    bkRes,            \* what the call returned: name, service, condition
    bkPc              \* "call" | "done"

refVars == <<refName, refPvd, refRes, refPc>>
sanVars == <<pvd, configuration, conf, sanPc>>
mpVars  == <<mpPc, localChan, configurationChan, received, emitted, fwPc,
             fwMsg, ctxDone>>
mergeVars == <<configurations, defaultEntryPoints, merged, mergePc>>
amVars  == <<amCfg, arrays, rts, amTodo, returned, amPc>>
aggVars == <<configured, aggregator, addIdx, rangeIdx, goroutines, invoked,
             startedPrds, provideErr, aggPc>>
thVars == <<thPrd, defaultDuration, providerThrottleDuration, thPc, rc, thChan,
            thEmitted, thFwPc, thFwMsg, sleepLeft, sinceDelivery, lastGap,
            thReceived, thCtxDone>>
poolVars == <<maxIdleConn, idleConnTimeout, conns, idleConns, clients, dials,
              janitor, sweep>>
brVars == <<brw, rw, bw, handler>>
cmpVars == <<compressConf, req, route>>
stVars == <<stKind, stWatched, stArg, objects, stPc, stAttempts, stReads, stWrites, stLast, stErr, stSynced>>
gmVars == <<gmHostnames, gmMatch, gmRule, gmPc>>
grVars == <<grListener, grHostnames, grRules, grMi, grConf, grCondition, grPc>>
mwVars == <<mwFilters, mwRes, mwPc>>
peerVars == <<peerClosed>>
markVars == <<active, sinceRelease>>
bkVars == <<bkRef, bkRes, bkPc>>
vars    == <<refVars, sanVars, mpVars, mergeVars, amVars, aggVars, thVars, poolVars, brVars, cmpVars, stVars, gmVars, grVars, mwVars, peerVars, markVars, bkVars>>
---------------------------------------------------------------------------
(* Bounds of the model *)

\* longest name handed to isAllowedReference on its own
MaxNameLen == 4
\* longest provider name handed to isAllowedReference on its own
MaxPvdLen == 2

---------------------------------------------------------------------------
(* Strings *)

At == "@"

\* every string over alphabet `chars' of length at most n
RECURSIVE StringsUpTo(_, _)
StringsUpTo(chars, n) ==
    IF n = 0 THEN {<<>>}
    ELSE LET shorter == StringsUpTo(chars, n - 1)
         IN  shorter \cup {Append(s, c) : s \in shorter, c \in chars}

\* position of the first sep in s, 0 when there is none (strings.Index)
RECURSIVE IndexFrom(_, _, _)
IndexFrom(s, sep, i) ==
    IF i > Len(s) THEN 0
    ELSE IF s[i] = sep THEN i
    ELSE IndexFrom(s, sep, i + 1)

Index(s, sep) == IndexFrom(s, sep, 1)

\* strings.Split(s, sep) for a one-character separator
RECURSIVE Split(_, _)
Split(s, sep) ==
    LET i == Index(s, sep)
    IN  IF i = 0 THEN <<s>>
        ELSE <<SubSeq(s, 1, i - 1)>> \o Split(SubSeq(s, i + 1, Len(s)), sep)

\* strings.Contains(s, substr)
Contains(s, substr) ==
    \E i \in 0..(Len(s) - Len(substr)) : SubSeq(s, i + 1, i + Len(substr)) = substr

\* strings.HasPrefix(s, prefix)
HasPrefix(s, prefix) ==
    Len(prefix) <= Len(s) /\ SubSeq(s, 1, Len(prefix)) = prefix

---------------------------------------------------------------------------
(* isAllowedReference *)

isAllowedReference_HasPrefix(name, p) ==
    LET split == Split(name, At)
    IN  IF Len(split) = 1 THEN TRUE
        ELSE IF ~HasPrefix(split[2], p) THEN TRUE
        ELSE split[2] = p

isAllowedReference(name, p) ==
    LET split == Split(name, At)
    IN  IF Len(split) = 1 THEN TRUE
        ELSE LET pvdName == split[2]
             IN  IF ~Contains(pvdName, p) THEN TRUE
                 ELSE pvdName = p

---------------------------------------------------------------------------
(* The dynamic data model, as far as sanitizeReferences reads it *)

\* a Go map with no entry
EmptyMap == [k \in {} |-> k]

\* dynamic.Service: each pointer field is a flag (non-nil) with its content
Service(lb, st, fo, foSvc, foFb, w, wSvcs, mi, miSvc, mirrors) ==
    [LoadBalancer |-> lb, ServersTransport |-> st,
     Failover |-> fo, FailoverService |-> foSvc, FailoverFallback |-> foFb,
     Weighted |-> w, WeightedServices |-> wSvcs,
     Mirroring |-> mi, MirroringService |-> miSvc, Mirrors |-> mirrors]

LoadBalancerService(st) ==
    Service(TRUE, st, FALSE, <<>>, <<>>, FALSE, <<>>, FALSE, <<>>, <<>>)
FailoverService(svc, fallback) ==
    Service(FALSE, <<>>, TRUE, svc, fallback, FALSE, <<>>, FALSE, <<>>, <<>>)
WeightedService(svcs) ==
    Service(FALSE, <<>>, FALSE, <<>>, <<>>, TRUE, svcs, FALSE, <<>>, <<>>)
MirroringService(svc, mirrors) ==
    Service(FALSE, <<>>, FALSE, <<>>, <<>>, FALSE, <<>>, TRUE, svc, mirrors)

\* dynamic.Middleware: Chain and Errors are the kinds that hold references
Middleware(chain, chainMws, errors, errSvc) ==
    [Chain |-> chain, ChainMiddlewares |-> chainMws,
     Errors |-> errors, ErrorsService |-> errSvc]

PlainMiddleware == Middleware(FALSE, <<>>, FALSE, <<>>)
ChainMiddleware(mws) == Middleware(TRUE, mws, FALSE, <<>>)
ErrorsMiddleware(svc) == Middleware(FALSE, <<>>, TRUE, svc)

\* dynamic.Router and dynamic.TCPRouter (a UDPRouter has no TLS and no
\* middlewares: TLS = FALSE and Middlewares = <<>>)
Router(svc, tls, opts, mws) ==
    [Service |-> svc, TLS |-> tls, TLSOptions |-> opts, Middlewares |-> mws]

\* dynamic.Configuration: a nil protocol section and a section with empty
\* maps give the same result, so a nil section is written as empty maps
Configuration(hr, hm, hs, tr, ts, ur, us) ==
    [HTTP |-> [Routers |-> hr, Middlewares |-> hm, Services |-> hs],
     TCP  |-> [Routers |-> tr, Services |-> ts],
     UDP  |-> [Routers |-> ur, Services |-> us]]

---------------------------------------------------------------------------
(* checkService, checkTCPService, checkUDPService, checkMiddleware *)

\* the checks return nil or an error; a recursion that exhausts the stack
\* ends the process
Nil == "nil"
Err == "error"
StackOverflow == "stack overflow"

\* the nesting of recursive check calls after which the stack is exhausted
MaxDepth == 4

\* for ... { if err := check(...); err != nil { return err } }
RECURSIVE checkServiceList(_, _, _, _)
RECURSIVE checkService(_, _, _, _)

checkServiceList(p, names, services, depth) ==
    IF names = <<>> THEN Nil
    ELSE LET err == checkService(p, Head(names), services, depth)
         IN  IF err # Nil THEN err
             ELSE checkServiceList(p, Tail(names), services, depth)

\* checkService; checkTCPService and checkUDPService are the same function
\* on services that have no LoadBalancer reference, Failover or Mirroring
checkService(p, svcName, services, depth) ==
    IF depth > MaxDepth THEN StackOverflow
    ELSE IF ~isAllowedReference(svcName, p) THEN Err
    ELSE LET parts == Split(svcName, At)
         IN  IF Len(parts) > 1 /\ parts[2] # p THEN Nil
             ELSE IF parts[1] \notin DOMAIN services THEN Err
             ELSE LET service == services[parts[1]]
                  IN  IF service.LoadBalancer
                         /\ ~isAllowedReference(service.ServersTransport, p)
                      THEN Err
                      ELSE LET children ==
                                   (IF service.Failover
                                    THEN <<service.FailoverService,
                                           service.FailoverFallback>>
                                    ELSE <<>>)
                                   \o (IF service.Weighted
                                       THEN service.WeightedServices ELSE <<>>)
                                   \o (IF service.Mirroring
                                       THEN service.Mirrors ELSE <<>>)
                           IN  checkServiceList(p, children, services, depth + 1)

\* checkTCPService: a TCP service holds references only in Weighted
RECURSIVE checkTCPServiceList(_, _, _, _)
RECURSIVE checkTCPService(_, _, _, _)

checkTCPServiceList(p, names, services, depth) ==
    IF names = <<>> THEN Nil
    ELSE LET err == checkTCPService(p, Head(names), services, depth)
         IN  IF err # Nil THEN err
             ELSE checkTCPServiceList(p, Tail(names), services, depth)

checkTCPService(p, svcName, services, depth) ==
    IF depth > MaxDepth THEN StackOverflow
    ELSE IF ~isAllowedReference(svcName, p) THEN Err
    ELSE LET parts == Split(svcName, At)
         IN  IF Len(parts) > 1 /\ parts[2] # p THEN Nil
             ELSE IF parts[1] \notin DOMAIN services THEN Err
             ELSE LET service == services[parts[1]]
                  IN  IF service.Weighted
                      THEN checkTCPServiceList(p, service.WeightedServices,
                                               services, depth + 1)
                      ELSE Nil

\* checkUDPService: as checkTCPService, on the UDP services
RECURSIVE checkUDPServiceList(_, _, _, _)
RECURSIVE checkUDPService(_, _, _, _)

checkUDPServiceList(p, names, services, depth) ==
    IF names = <<>> THEN Nil
    ELSE LET err == checkUDPService(p, Head(names), services, depth)
         IN  IF err # Nil THEN err
             ELSE checkUDPServiceList(p, Tail(names), services, depth)

checkUDPService(p, svcName, services, depth) ==
    IF depth > MaxDepth THEN StackOverflow
    ELSE IF ~isAllowedReference(svcName, p) THEN Err
    ELSE LET parts == Split(svcName, At)
         IN  IF Len(parts) > 1 /\ parts[2] # p THEN Nil
             ELSE IF parts[1] \notin DOMAIN services THEN Err
             ELSE LET service == services[parts[1]]
                  IN  IF service.Weighted
                      THEN checkUDPServiceList(p, service.WeightedServices,
                                               services, depth + 1)
                      ELSE Nil

RECURSIVE checkMiddlewareList(_, _, _, _)
RECURSIVE checkMiddleware(_, _, _, _)

checkMiddlewareList(p, names, middlewares, depth) ==
    IF names = <<>> THEN Nil
    ELSE LET err == checkMiddleware(p, Head(names), middlewares, depth)
         IN  IF err # Nil THEN err
             ELSE checkMiddlewareList(p, Tail(names), middlewares, depth)

checkMiddleware(p, middlewareName, middlewares, depth) ==
    IF depth > MaxDepth THEN StackOverflow
    ELSE IF ~isAllowedReference(middlewareName, p) THEN Err
    ELSE LET parts == Split(middlewareName, At)
         IN  IF Len(parts) > 1 /\ parts[2] # p THEN Nil
             ELSE IF parts[1] \notin DOMAIN middlewares THEN Err
             ELSE LET middleware == middlewares[parts[1]]
                      err == IF middleware.Chain
                             THEN checkMiddlewareList(p, middleware.ChainMiddlewares,
                                                      middlewares, depth + 1)
                             ELSE Nil
                  IN  IF err # Nil THEN err
                      ELSE IF middleware.Errors
                              /\ ~isAllowedReference(middleware.ErrorsService, p)
                      THEN Err
                      ELSE Nil

---------------------------------------------------------------------------
(* checkRouter, checkTCPRouter, checkUDPRouter *)

checkRouter(p, router, excludedServices, excludedMiddlewares) ==
    IF router.Service \in excludedServices \/ ~isAllowedReference(router.Service, p)
    THEN Err
    ELSE IF router.TLS /\ ~isAllowedReference(router.TLSOptions, p)
    THEN Err
    ELSE IF \E i \in 1..Len(router.Middlewares) :
                \/ router.Middlewares[i] \in excludedMiddlewares
                \/ ~isAllowedReference(router.Middlewares[i], p)
    THEN Err
    ELSE Nil

checkTCPRouter(p, router, excludedServices) ==
    IF router.Service \in excludedServices \/ ~isAllowedReference(router.Service, p)
    THEN Err
    ELSE IF router.TLS /\ ~isAllowedReference(router.TLSOptions, p)
    THEN Err
    ELSE Nil

checkUDPRouter(p, router, excludedServices) ==
    IF router.Service \in excludedServices \/ ~isAllowedReference(router.Service, p)
    THEN Err
    ELSE Nil

---------------------------------------------------------------------------
(* sanitizeReferences *)

\* m[k] = v on a Go map
Put(map, k, v) == [x \in DOMAIN map \cup {k} |-> IF x = k THEN v ELSE map[x]]

\* the orders in which a range loop may visit the keys of a map
Orders(keys) ==
    {o \in [1..Cardinality(keys) -> keys] :
        \A i \in DOMAIN o : \A j \in DOMAIN o : o[i] = o[j] => i = j}

\* the check each kind of item goes through
checkItem(kind, p, name, kept) ==
    CASE kind = "middleware" -> checkMiddleware(p, name, kept, 0)
      [] kind = "service"    -> checkService(p, name, kept, 0)
      [] kind = "tcpService" -> checkTCPService(p, name, kept, 0)
      [] kind = "udpService" -> checkUDPService(p, name, kept, 0)

\* one loop over the middlewares or the services of a section, visiting
\* the keys in `order': each name is checked against the map of the items
\* conf holds so far; a failed one goes to the excluded set, a passed one
\* into conf
RECURSIVE sanitizeLoop_AgainstMessage(_, _, _, _, _)
sanitizeLoop_AgainstMessage(kind, p, items, order, acc) ==
    IF order = <<>> \/ acc.crashed THEN acc
    ELSE LET name == Head(order)
             err  == checkItem(kind, p, name, items)
         IN  sanitizeLoop_AgainstMessage(kind, p, items, Tail(order),
                 IF err = StackOverflow
                 THEN [acc EXCEPT !.crashed = TRUE]
                 ELSE IF err # Nil
                 THEN [acc EXCEPT !.excluded = @ \cup {name}]
                 ELSE [acc EXCEPT !.kept = Put(@, name, items[name])])

RECURSIVE sanitizeLoop(_, _, _, _, _)
sanitizeLoop(kind, p, items, order, acc) ==
    IF order = <<>> \/ acc.crashed THEN acc
    ELSE LET name == Head(order)
             err  == checkItem(kind, p, name, acc.kept)
         IN  sanitizeLoop(kind, p, items, Tail(order),
                 IF err = StackOverflow
                 THEN [acc EXCEPT !.crashed = TRUE]
                 ELSE IF err # Nil
                 THEN [acc EXCEPT !.excluded = @ \cup {name}]
                 ELSE [acc EXCEPT !.kept = Put(@, name, items[name])])

sanitizeLoopStart == [kept |-> EmptyMap, excluded |-> {}, crashed |-> FALSE]

\* the routers a loop over `routers' puts into conf: those of `passed'
KeepRouters(routers, passed) == [k \in passed |-> routers[k]]

sanitizeReferences(p, cfg, order) ==
    LET hm == sanitizeLoop("middleware", p, cfg.HTTP.Middlewares,
                           order.httpMiddlewares, sanitizeLoopStart)
        hs == sanitizeLoop("service", p, cfg.HTTP.Services,
                           order.httpServices, sanitizeLoopStart)
        ts == sanitizeLoop("tcpService", p, cfg.TCP.Services,
                           order.tcpServices, sanitizeLoopStart)
        us == sanitizeLoop("udpService", p, cfg.UDP.Services,
                           order.udpServices, sanitizeLoopStart)
        httpOk == {k \in DOMAIN cfg.HTTP.Routers :
                      checkRouter(p, cfg.HTTP.Routers[k], hs.excluded, hm.excluded) = Nil}
        tcpOk  == {k \in DOMAIN cfg.TCP.Routers :
                      checkTCPRouter(p, cfg.TCP.Routers[k], ts.excluded) = Nil}
        udpOk  == {k \in DOMAIN cfg.UDP.Routers :
                      checkUDPRouter(p, cfg.UDP.Routers[k], us.excluded) = Nil}
    IN  [crashed |-> hm.crashed \/ hs.crashed \/ ts.crashed \/ us.crashed,
         conf |-> Configuration(
                      KeepRouters(cfg.HTTP.Routers, httpOk), hm.kept, hs.kept,
                      KeepRouters(cfg.TCP.Routers, tcpOk), ts.kept,
                      KeepRouters(cfg.UDP.Routers, udpOk), us.kept)]

---------------------------------------------------------------------------
(* Specification of sanitizeReferences: one message of source "a" *)

\* the most items (routers, middlewares, services) a message holds
MaxItems == 2

SourceA == <<"a">>

\* names as a router, a Chain or a service may write them, for source "a":
\* bare, qualified with the own source, with another source ("b"), and
\* with a source that holds "a" as a proper substring ("ab")
NameS   == <<"s">>
NameT   == <<"t">>
NameSa  == <<"s", At, "a">>
NameSb  == <<"s", At, "b">>
NameSab == <<"s", At, "a", "b">>
NameR   == <<"r">>

ItemKeys == {NameS, NameT, NameSa, NameSb, NameSab}

ServiceMenu ==
    {LoadBalancerService(<<>>), LoadBalancerService(NameSab),
     WeightedService(<<NameT>>), WeightedService(<<NameSab>>),
     FailoverService(NameT, NameSab),
     MirroringService(NameSab, <<NameT>>)}

MiddlewareMenu ==
    {PlainMiddleware, ChainMiddleware(<<NameT>>), ChainMiddleware(<<NameSab>>),
     ChainMiddleware(<<NameSa>>), ErrorsMiddleware(NameSab)}

L4ServiceMenu ==
    {LoadBalancerService(<<>>), WeightedService(<<NameSab>>)}

RouterMenu ==
    {Router(svc, tm[1], tm[2], tm[3]) :
        svc \in {NameS, NameSa, NameSab},
        tm \in {<<FALSE, <<>>, <<>>>>, <<TRUE, NameSab, <<>>>>,
                <<TRUE, NameS, <<>>>>, <<FALSE, <<>>, <<NameS>>>>,
                <<FALSE, <<>>, <<NameSa>>>>, <<FALSE, <<>>, <<NameSab>>>>}}

TCPRouterMenu ==
    {Router(svc, tm[1], tm[2], tm[3]) :
        svc \in {NameS, NameSa, NameSab},
        tm \in {<<FALSE, <<>>, <<>>>>, <<TRUE, NameSab, <<>>>>,
                <<FALSE, <<>>, <<NameSab>>>>}}

UDPRouterMenu ==
    {Router(svc, FALSE, <<>>, <<>>) : svc \in {NameS, NameSa, NameSab}}

Item(kind, key, def) == [kind |-> kind, key |-> key, def |-> def]

Items ==
    {Item("httpService", k, d) : k \in ItemKeys, d \in ServiceMenu}
    \cup {Item("httpMiddleware", k, d) : k \in ItemKeys, d \in MiddlewareMenu}
    \cup {Item("httpRouter", NameR, d) : d \in RouterMenu}
    \cup {Item("tcpService", k, d) : k \in {NameS, NameSb, NameSab}, d \in L4ServiceMenu}
    \cup {Item("tcpRouter", NameR, d) : d \in TCPRouterMenu}
    \cup {Item("udpService", k, d) : k \in {NameS, NameSb, NameSab}, d \in L4ServiceMenu}
    \cup {Item("udpRouter", NameR, d) : d \in UDPRouterMenu}

\* the sets of at most n items, no two of them under the same key of a map
RECURSIVE ItemSets(_)
ItemSets(n) ==
    IF n = 0 THEN {{}}
    ELSE LET smaller == ItemSets(n - 1)
         IN  smaller \cup
             {s \cup {i} : s \in smaller,
                          i \in Items}

WellKeyed(s) ==
    \A i \in s : \A j \in s : (i.kind = j.kind /\ i.key = j.key) => i = j

\* the map of one kind that a set of items makes
MapOf(s, kind) ==
    LET keys == {i.key : i \in {x \in s : x.kind = kind}}
    IN  [k \in keys |-> (CHOOSE i \in s : i.kind = kind /\ i.key = k).def]

ConfigurationOf(s) ==
    Configuration(MapOf(s, "httpRouter"), MapOf(s, "httpMiddleware"),
                  MapOf(s, "httpService"), MapOf(s, "tcpRouter"),
                  MapOf(s, "tcpService"), MapOf(s, "udpRouter"),
                  MapOf(s, "udpService"))

NoConfiguration == Configuration(EmptyMap, EmptyMap, EmptyMap, EmptyMap,
                                 EmptyMap, EmptyMap, EmptyMap)

\* what sanitizeReferences may return, over the orders in which its range
\* loops may visit the maps
SanitizeOutcomes(p, cfg) ==
    {sanitizeReferences(p, cfg,
         [httpMiddlewares |-> ohm, httpServices |-> ohs,
          tcpServices |-> ots, udpServices |-> ous]) :
        ohm \in Orders(DOMAIN cfg.HTTP.Middlewares),
        ohs \in Orders(DOMAIN cfg.HTTP.Services),
        ots \in Orders(DOMAIN cfg.TCP.Services),
        ous \in Orders(DOMAIN cfg.UDP.Services)}

SanInit ==
    /\ pvd = SourceA
    /\ configuration \in {ConfigurationOf(s) : s \in {x \in ItemSets(MaxItems) : WellKeyed(x)}}
    /\ conf = NoConfiguration
    /\ sanPc = "call"

\* sanitizeReferences(pvd, configuration)
Sanitize ==
    /\ sanPc = "call"
    /\ \E res \in SanitizeOutcomes(pvd, configuration) :
          /\ conf' = res.conf
          /\ sanPc' = IF res.crashed THEN "crashed" ELSE "done"
    /\ UNCHANGED <<pvd, configuration>>

---------------------------------------------------------------------------
(* MultiProvider.Provide *)

\* messages the wrapped provider sends in one run
MaxEmit == 3
\* capacity of the downstream configuration channel
ConfChanCap == 2
\* capacity of localChan: make(chan dynamic.Message, 1)
LocalChanCap == 1

Message(name, cfg) == [ProviderName |-> name, Configuration |-> cfg]

NoMessage == Message(<<>>, NoConfiguration)

\* the channel MultiProvider.Provide hands to the wrapped provider's Provide
ProvidedChan == "configurationChan"

\* what the wrapped provider may send: an empty configuration, a service
\* under a bare name, a service of another source that holds a reference
\* the own source may not make, a router to a bare service
ProviderConfigurations ==
    {NoConfiguration,
     ConfigurationOf({Item("httpService", NameS, LoadBalancerService(<<>>))}),
     ConfigurationOf({Item("httpService", NameSb, WeightedService(<<NameSab>>))}),
     ConfigurationOf({Item("httpRouter", NameR, Router(NameS, FALSE, <<>>, <<>>))})}

MPInit ==
    /\ mpPc = "call"
    /\ localChan = <<>>
    /\ configurationChan = <<>>
    /\ received = <<>>
    /\ emitted = 0
    /\ fwPc = "idle"
    /\ fwMsg = NoMessage
    /\ ctxDone = FALSE

MPIdle ==
    /\ mpPc = "idle"
    /\ localChan = <<>>
    /\ configurationChan = <<>>
    /\ received = <<>>
    /\ emitted = 0
    /\ fwPc = "idle"
    /\ fwMsg = NoMessage
    /\ ctxDone = FALSE

\* MultiProvider.Provide: makes localChan, starts the forwarding goroutine
\* and returns what the wrapped provider's Provide returns
Provide ==
    /\ mpPc = "call"
    /\ localChan' = <<>>
    /\ fwPc' = "select"
    /\ \E err \in {Nil, Err} : mpPc' = IF err = Nil THEN "provided" ELSE "failed"
    /\ UNCHANGED <<configurationChan, received, emitted, fwMsg, ctxDone>>

\* the wrapped provider sends a message on the channel its Provide was given
ProviderEmit ==
    /\ mpPc = "provided"
    /\ ~ctxDone
    /\ emitted < MaxEmit
    /\ \E cfg \in ProviderConfigurations :
          IF ProvidedChan = "localChan"
          THEN /\ Len(localChan) < LocalChanCap
               /\ localChan' = Append(localChan, Message(SourceA, cfg))
               /\ UNCHANGED configurationChan
          ELSE /\ Len(configurationChan) < ConfChanCap
               /\ configurationChan' = Append(configurationChan, Message(SourceA, cfg))
               /\ UNCHANGED localChan
    /\ emitted' = emitted + 1
    /\ UNCHANGED <<mpPc, received, fwPc, fwMsg, ctxDone>>

\* the ready cases of the goroutine's select
ReadyCases ==
    (IF ctxDone THEN {"ctx.Done"} ELSE {})
    \cup (IF localChan # <<>> THEN {"localChan"} ELSE {})

\* one step of the forwarding goroutine: at the select, a ready case is
\* taken (return on ctx.Done; on a message, sanitizeReferences); then the
\* message is sent downstream, which blocks while the channel is full
Forwarder ==
    /\ fwPc \in {"select", "send"}
    /\ IF fwPc = "select"
       THEN \E case \in ReadyCases :
               IF case = "ctx.Done"
               THEN /\ fwPc' = "exit"
                    /\ UNCHANGED <<fwMsg, localChan, configurationChan>>
               ELSE \E res \in SanitizeOutcomes(Head(localChan).ProviderName,
                                                Head(localChan).Configuration) :
                       /\ fwMsg' = [Head(localChan) EXCEPT !.Configuration = res.conf]
                       /\ localChan' = Tail(localChan)
                       /\ fwPc' = "send"
                       /\ UNCHANGED configurationChan
       ELSE /\ Len(configurationChan) < ConfChanCap
            /\ configurationChan' = Append(configurationChan, fwMsg)
            /\ fwPc' = "select"
            /\ UNCHANGED <<fwMsg, localChan>>
    /\ UNCHANGED <<mpPc, received, emitted, ctxDone>>

\* the pool is stopped
Cancel ==
    /\ mpPc # "call"
    /\ ~ctxDone
    /\ ctxDone' = TRUE
    /\ UNCHANGED <<mpPc, localChan, configurationChan, received, emitted, fwPc, fwMsg>>

\* the consumer of the configuration channel takes a message
ConsumerReceive ==
    /\ configurationChan # <<>>
    /\ received' = Append(received, Head(configurationChan))
    /\ configurationChan' = Tail(configurationChan)
    /\ UNCHANGED <<mpPc, localChan, emitted, fwPc, fwMsg, ctxDone>>

---------------------------------------------------------------------------
(* mergeConfiguration *)

\* provider.MakeQualifiedName(pvd, name)
MakeQualifiedName(p, name) == name \o <<At>> \o p

\* tls.DefaultTLSStoreName and tls.DefaultTLSConfigName: the word "default"
DefaultName == <<"default">>

\* tls.DefaultTLSOptions
DefaultTLSOptions == [Origin |-> <<"tls.DefaultTLSOptions">>, EntryPoints |-> <<>>]

\* the maps of a configuration that mergeConfiguration merges (the list of
\* TLS certificates is left out)
NamedMaps ==
    {"HTTP.Routers", "HTTP.Middlewares", "HTTP.Services", "HTTP.Models",
     "HTTP.ServersTransports", "TCP.Routers", "TCP.Middlewares", "TCP.Services",
     "UDP.Routers", "UDP.Services"}
TLSMaps == {"TLS.Stores", "TLS.Options"}
MergedMaps == NamedMaps \cup TLSMaps

\* the key one entry of one map is stored under
mergedKey_ServiceUnqualified(kind, p, name) ==
    IF kind = "HTTP.Services" THEN name
    ELSE IF kind \in TLSMaps
    THEN IF name # DefaultName THEN MakeQualifiedName(p, name) ELSE name
    ELSE MakeQualifiedName(p, name)

mergedKey(kind, p, name) ==
    IF kind \in TLSMaps
    THEN IF name # DefaultName THEN MakeQualifiedName(p, name) ELSE name
    ELSE MakeQualifiedName(p, name)

\* the value stored: a router without entry points gets the default ones
mergedValue(kind, item, defaultEPs) ==
    IF kind \in {"HTTP.Routers", "TCP.Routers"} /\ Len(item.EntryPoints) = 0
    THEN [item EXCEPT !.EntryPoints = defaultEPs]
    ELSE item

\* for name, item := range map { conf...[key] = item }
RECURSIVE mergeMap(_, _, _, _, _, _)
mergeMap(acc, kind, p, map, names, defaultEPs) ==
    IF names = {} THEN acc
    ELSE LET name == CHOOSE x \in names : TRUE
         IN  mergeMap(Put(acc, mergedKey(kind, p, name),
                          mergedValue(kind, map[name], defaultEPs)),
                      kind, p, map, names \ {name}, defaultEPs)

\* for pvd, configuration := range configurations { ... }, the providers
\* visited in `order'
RECURSIVE mergeLoop(_, _, _, _)
mergeLoop(acc, cfgs, order, defaultEPs) ==
    IF order = <<>> THEN acc
    ELSE LET p == Head(order)
             next == [conf |->
                          [kind \in MergedMaps |->
                              mergeMap(acc.conf[kind], kind, p, cfgs[p][kind],
                                       DOMAIN cfgs[p][kind], defaultEPs)],
                      defaultTLSStoreProviders |->
                          IF DefaultName \in DOMAIN cfgs[p]["TLS.Stores"]
                          THEN Append(acc.defaultTLSStoreProviders, p)
                          ELSE acc.defaultTLSStoreProviders,
                      defaultTLSOptionProviders |->
                          IF DefaultName \in DOMAIN cfgs[p]["TLS.Options"]
                          THEN Append(acc.defaultTLSOptionProviders, p)
                          ELSE acc.defaultTLSOptionProviders]
         IN  mergeLoop(next, cfgs, Tail(order), defaultEPs)

\* delete(map, key)
Delete(map, key) == [k \in DOMAIN map \ {key} |-> map[k]]

\* if len(defaultTLSStoreProviders) > 1 { delete(conf.TLS.Stores, "default") }
resolveDefaultStores_Never(stores, providers) == stores

resolveDefaultStores(stores, providers) ==
    IF Len(providers) > 1 THEN Delete(stores, DefaultName) ELSE stores

\* if len(defaultTLSOptionProviders) == 0 { set the built-in default }
\* else if ... > 1 { delete(conf.TLS.Options, "default") }
resolveDefaultOptions(options, providers) ==
    IF Len(providers) = 0 THEN Put(options, DefaultName, DefaultTLSOptions)
    ELSE IF Len(providers) > 1 THEN Delete(options, DefaultName)
    ELSE options

mergeConfiguration(cfgs, defaultEPs, order) ==
    LET start == [conf |-> [kind \in MergedMaps |-> EmptyMap],
                  defaultTLSStoreProviders |-> <<>>,
                  defaultTLSOptionProviders |-> <<>>]
        loop  == mergeLoop(start, cfgs, order, defaultEPs)
    IN  [loop.conf EXCEPT
            !["TLS.Stores"] = resolveDefaultStores(@, loop.defaultTLSStoreProviders),
            !["TLS.Options"] = resolveDefaultOptions(@, loop.defaultTLSOptionProviders)]

---------------------------------------------------------------------------
(* Specification of mergeConfiguration *)

\* the most entries the configurations of all providers hold together
MaxMergeItems == 3

\* provider names are identifiers without '@': "a", "b", "c"
NameX  == <<"x">>
NameXa == <<"x", At, "a">>

EntryPointW == <<"w">>

\* an entry of a map: the definition is known by where it comes from
Entry(p, kind, name, eps) ==
    [pvd |-> p, kind |-> kind, name |-> name,
     def |-> [Origin |-> <<p, kind, name>>, EntryPoints |-> eps]]

\* providers "a" and "b" may hold an entry in every map; a third provider
\* "c" holds a service or the TLS defaults
MergeEntries ==
    {Entry(p, "HTTP.Routers", NameX, eps) :
        p \in {<<"a">>, <<"b">>}, eps \in {<<>>, <<EntryPointW>>}}
    \cup {Entry(p, "TCP.Routers", NameX, <<>>) : p \in {<<"a">>, <<"b">>}}
    \cup {Entry(p, "HTTP.Services", name, <<>>) :
        p \in {<<"a">>, <<"b">>}, name \in {NameX, NameXa}}
    \cup {Entry(p, kind, NameX, <<>>) :
        p \in {<<"a">>, <<"b">>},
        kind \in NamedMaps \ {"HTTP.Routers", "TCP.Routers", "HTTP.Services"}}
    \cup {Entry(p, kind, name, <<>>) :
        p \in {<<"a">>, <<"b">>}, kind \in TLSMaps, name \in {DefaultName, NameX}}
    \cup {Entry(<<"c">>, "HTTP.Services", NameX, <<>>),
          Entry(<<"c">>, "TLS.Stores", DefaultName, <<>>),
          Entry(<<"c">>, "TLS.Options", DefaultName, <<>>)}

RECURSIVE EntrySets(_)
EntrySets(n) ==
    IF n = 0 THEN {{}}
    ELSE LET smaller == EntrySets(n - 1)
         IN  smaller \cup {s \cup {e} : s \in smaller, e \in MergeEntries}

OneEntryPerKey(s) ==
    \A e \in s : \A f \in s :
        (e.pvd = f.pvd /\ e.kind = f.kind /\ e.name = f.name) => e = f

\* dynamic.Configurations made of a set of entries
ConfigurationsOf(s) ==
    [p \in {e.pvd : e \in s} |->
        [kind \in MergedMaps |->
            LET mine == {e \in s : e.pvd = p /\ e.kind = kind}
            IN  [name \in {e.name : e \in mine} |->
                    (CHOOSE e \in mine : e.name = name).def]]]

NoMerged == [kind \in MergedMaps |-> EmptyMap]

MergeInit ==
    /\ configurations \in
          {ConfigurationsOf(s) : s \in {x \in EntrySets(MaxMergeItems) : OneEntryPerKey(x)}}
    /\ defaultEntryPoints = <<EntryPointW>>
    /\ merged = NoMerged
    /\ mergePc = "call"

MergeIdle ==
    /\ configurations = EmptyMap
    /\ defaultEntryPoints = <<>>
    /\ merged = NoMerged
    /\ mergePc = "idle"

\* mergeConfiguration(configurations, defaultEntryPoints)
Merge ==
    /\ mergePc = "call"
    /\ \E order \in Orders(DOMAIN configurations) :
          merged' = mergeConfiguration(configurations, defaultEntryPoints, order)
    /\ mergePc' = "done"
    /\ UNCHANGED <<configurations, defaultEntryPoints>>

---------------------------------------------------------------------------
(* applyModel *)

\* A Go slice of strings.  The Middlewares of a model is a slice (arr, len)
\* on a backing array that other slices may share; its capacity is the
\* length of the array.  A slice nothing else can reach (a DeepCopy, a
\* freshly allocated append) is written with its content in `own'.
NoArray == <<>>
OwnSlice(content) == [arr |-> NoArray, len |-> Len(content), own |-> content]
SharedSlice(arr, len) == [arr |-> arr, len |-> len, own |-> <<>>]

\* the strings a slice holds now
ReadSlice(arrs, s) ==
    IF s.arr = NoArray THEN s.own ELSE SubSeq(arrs[s.arr], 1, s.len)

\* append(s, xs...): in place when the capacity of s allows, else on a new
\* array; appending nothing returns s
appendSlice_AlwaysCopy(arrs, s, xs) ==
    [arrays |-> arrs, slice |-> OwnSlice(ReadSlice(arrs, s) \o xs)]

appendSlice(arrs, s, xs) ==
    IF xs = <<>> THEN [arrays |-> arrs, slice |-> s]
    ELSE IF s.arr # NoArray /\ s.len + Len(xs) <= Len(arrs[s.arr])
    THEN [arrays |->
              [arrs EXCEPT ![s.arr] =
                  [i \in DOMAIN @ |->
                      IF i > s.len /\ i <= s.len + Len(xs)
                      THEN xs[i - s.len] ELSE @[i]]],
          slice |-> SharedSlice(s.arr, s.len + Len(xs))]
    ELSE [arrays |-> arrs, slice |-> OwnSlice(ReadSlice(arrs, s) \o xs)]

\* dynamic.Router as applyModel reads it; Origin stands for the rest of
\* the router's definition (rule, service, priority)
HTTPRouter(origin, eps, tls, mws) ==
    [Origin |-> origin, EntryPoints |-> eps, TLS |-> tls, Middlewares |-> mws]

\* no TLS section: a nil pointer
NoTLS == "nil"

\* cfg.HTTP.Models[epName+"@internal"]
ModelKey(epName) == epName \o <<At>> \o <<"internal">>

\* rtName of the copy made for epName
rtName_AlwaysPrefixed(name, eps, epName) == epName \o <<"-">> \o name

rtName(name, eps, epName) ==
    IF Len(eps) > 1 THEN epName \o <<"-">> \o name ELSE name

\* for _, epName := range eps { ... } for the router `name': st holds rts,
\* the arrays and the entry points appended to router.EntryPoints so far
RECURSIVE entryPointsLoop(_, _, _, _, _, _)
entryPointsLoop(st, models, name, rt, eps, i) ==
    IF i > Len(eps) THEN st
    ELSE LET epName == eps[i]
         IN  IF ModelKey(epName) \in DOMAIN models
             THEN LET mdl == models[ModelKey(epName)]
                      app == appendSlice(st.arrays, mdl.Middlewares,
                                         ReadSlice(st.arrays, rt.Middlewares))
                      cp  == HTTPRouter(rt.Origin, <<epName>>,
                                        IF rt.TLS = NoTLS THEN mdl.TLS ELSE rt.TLS,
                                        app.slice)
                  IN  entryPointsLoop(
                          [st EXCEPT !.arrays = app.arrays,
                                     !.rts = Put(@, rtName(name, eps, epName), cp)],
                          models, name, rt, eps, i + 1)
             ELSE LET kept == Append(st.entryPoints, epName)
                  IN  entryPointsLoop(
                          [st EXCEPT !.entryPoints = kept,
                                     !.rts = Put(@, name,
                                                 [rt EXCEPT !.EntryPoints = kept])],
                          models, name, rt, eps, i + 1)

\* if cfg.HTTP == nil || len(cfg.HTTP.Models) == 0 { return cfg }
\* rts := make(map[string]*dynamic.Router)
ApplyModelCall ==
    /\ amPc = "call"
    /\ IF DOMAIN amCfg.Models = {}
       THEN /\ returned' = amCfg.Routers
            /\ amPc' = "done"
            /\ UNCHANGED <<rts, amTodo>>
       ELSE /\ rts' = EmptyMap
            /\ amTodo' = DOMAIN amCfg.Routers
            /\ amPc' = "range"
            /\ UNCHANGED returned
    /\ UNCHANGED <<amCfg, arrays>>

\* one iteration of for name, rt := range cfg.HTTP.Routers
ApplyModelRange ==
    /\ amPc = "range"
    /\ \E name \in amTodo :
          LET rt == amCfg.Routers[name]
              st == entryPointsLoop(
                        [rts |-> rts, arrays |-> arrays, entryPoints |-> <<>>],
                        amCfg.Models, name, rt, rt.EntryPoints, 1)
          IN  /\ rts' = st.rts
              /\ arrays' = st.arrays
              /\ amTodo' = amTodo \ {name}
    /\ UNCHANGED <<amCfg, returned, amPc>>

\* cfg.HTTP.Routers = rts; return cfg
ApplyModelReturn ==
    /\ amPc = "range"
    /\ amTodo = {}
    /\ returned' = rts
    /\ amPc' = "done"
    /\ UNCHANGED <<amCfg, arrays, rts, amTodo>>

---------------------------------------------------------------------------
(* Specification of applyModel *)

\* the most routers of the configuration
MaxRouters == 2
\* the most spare capacity of a model's Middlewares slice
MaxSpare == 1

EntryPointV == <<"v">>
RouterR  == <<"r">>
RouterQ  == <<"q">>
RouterWR == <<"w", "-", "r">>

\* the middleware each router names when it names one
OwnMiddleware(name) ==
    IF name = RouterR THEN <<"x">> ELSE IF name = RouterQ THEN <<"y">> ELSE <<"z">>

RouterChoices(name) ==
    {HTTPRouter(name, eps, tm[1], OwnSlice(tm[2])) :
        eps \in {<<EntryPointW>>, <<EntryPointW, EntryPointV>>, <<EntryPointV>>},
        tm \in {<<NoTLS, <<>>>>, <<NoTLS, <<OwnMiddleware(name)>>>>,
                <<"routerTLS", <<OwnMiddleware(name)>>>>}}

RouterMaps ==
    UNION {[names -> UNION {RouterChoices(n) : n \in names}] :
              names \in {s \in SUBSET {RouterR, RouterQ, RouterWR} :
                            Cardinality(s) <= MaxRouters}}

\* the model of entry point "w": TLS or not, no or one middleware, a slice
\* with or without spare capacity; the model of "v" holds nothing
ModelWChoices ==
    {[tls |-> tls, mws |-> mws, spare |-> spare] :
        tls \in {NoTLS, "modelTLS"}, mws \in {<<>>, <<"m">>}, spare \in 0..MaxSpare}

AMInit ==
    /\ \E routers \in {r \in RouterMaps : \A n \in DOMAIN r : r[n].Origin = n} :
       \E withW \in BOOLEAN, withV \in BOOLEAN, w \in ModelWChoices :
          /\ withW \/ (w.tls = NoTLS /\ w.mws = <<>> /\ w.spare = 0)
          /\ amCfg = [Routers |-> routers,
                    Models |->
                        [k \in (IF withW THEN {ModelKey(EntryPointW)} ELSE {})
                               \cup (IF withV THEN {ModelKey(EntryPointV)} ELSE {}) |->
                            IF k = ModelKey(EntryPointW)
                            THEN [TLS |-> w.tls,
                                  Middlewares |-> SharedSlice(EntryPointW, Len(w.mws))]
                            ELSE [TLS |-> NoTLS,
                                  Middlewares |-> SharedSlice(EntryPointV, 0)]]]
          /\ arrays = [a \in {EntryPointW, EntryPointV} |->
                          IF a = EntryPointW
                          THEN w.mws \o [i \in 1..w.spare |-> ""]
                          ELSE <<>>]
    /\ rts = EmptyMap
    /\ amTodo = {}
    /\ returned = EmptyMap
    /\ amPc = "call"

AMIdle ==
    /\ amCfg = [Routers |-> EmptyMap, Models |-> EmptyMap]
    /\ arrays = EmptyMap
    /\ rts = EmptyMap
    /\ amTodo = {}
    /\ returned = EmptyMap
    /\ amPc = "idle"

---------------------------------------------------------------------------
(* ProviderAggregator: AddProvider, Provide, launchProvider *)

\* a provider: its kind decides the slot AddProvider puts it in; initErr
\* and provideErr say whether its Init and its Provide return an error
Provider(name, kind, initErr, prvErr) ==
    [name |-> name, kind |-> kind, initErr |-> initErr, provideErr |-> prvErr]

\* a nil provider.Provider
NoProvider == Provider("nil", "nil", FALSE, FALSE)

NewAggregator ==
    [fileProvider |-> NoProvider, internalProvider |-> NoProvider,
     providers |-> <<>>]

\* AddProvider as quietAddProvider calls it: the error of Init is logged
\* and the provider left out
AddProvider_ErrorEmptiesProviders(agg, prd) ==
    IF prd.initErr THEN [agg EXCEPT !.providers = <<>>]
    ELSE IF prd.kind = "file" THEN [agg EXCEPT !.fileProvider = prd]
    ELSE IF prd.kind = "internal" THEN [agg EXCEPT !.internalProvider = prd]
    ELSE [agg EXCEPT !.providers = Append(@, prd)]

AddProvider(agg, prd) ==
    IF prd.initErr THEN agg
    ELSE IF prd.kind = "file" THEN [agg EXCEPT !.fileProvider = prd]
    ELSE IF prd.kind = "internal" THEN [agg EXCEPT !.internalProvider = prd]
    ELSE [agg EXCEPT !.providers = Append(@, prd)]

\* launchProvider: the Provide of prd is called (behind the throttling
\* wrapper or not); an error is logged
launchProvider(st, prd) ==
    [invoked |-> Append(st.invoked, prd.name),
     started |-> IF prd.provideErr THEN st.started
                 ELSE st.started \cup {prd.name}]

\* quietAddProvider(provider), once per configured provider
QuietAddProvider ==
    /\ aggPc = "new"
    /\ addIdx <= Len(configured)
    /\ aggregator' = AddProvider(aggregator, configured[addIdx])
    /\ addIdx' = addIdx + 1
    /\ UNCHANGED <<configured, rangeIdx, goroutines, invoked, startedPrds,
                   provideErr, aggPc>>

\* Provide is called: the file provider is launched in the caller
AggregatorProvide ==
    /\ aggPc = "new"
    /\ addIdx > Len(configured)
    /\ LET st == IF aggregator.fileProvider # NoProvider
                 THEN launchProvider([invoked |-> invoked, started |-> startedPrds],
                                     aggregator.fileProvider)
                 ELSE [invoked |-> invoked, started |-> startedPrds]
       IN  /\ invoked' = st.invoked
           /\ startedPrds' = st.started
    /\ rangeIdx' = 1
    /\ aggPc' = "range"
    /\ UNCHANGED <<configured, aggregator, addIdx, goroutines, provideErr>>

\* for _, prd := range p.providers { safe.Go(...) }: one iteration
AggregatorRange ==
    /\ aggPc = "range"
    /\ rangeIdx <= Len(aggregator.providers)
    /\ goroutines' = goroutines \cup {aggregator.providers[rangeIdx]}
    /\ rangeIdx' = rangeIdx + 1
    /\ UNCHANGED <<configured, aggregator, addIdx, invoked, startedPrds,
                   provideErr, aggPc>>

\* a goroutine made by safe.Go runs launchProvider
AggregatorGoroutine ==
    /\ \E prd \in goroutines :
          LET st == launchProvider([invoked |-> invoked, started |-> startedPrds], prd)
          IN  /\ invoked' = st.invoked
              /\ startedPrds' = st.started
              /\ goroutines' = goroutines \ {prd}
    /\ UNCHANGED <<configured, aggregator, addIdx, rangeIdx, provideErr, aggPc>>

\* after the loop: the internal provider is launched in the caller and
\* Provide returns nil
AggregatorInternal ==
    /\ aggPc = "range"
    /\ rangeIdx > Len(aggregator.providers)
    /\ LET st == IF aggregator.internalProvider # NoProvider
                 THEN launchProvider([invoked |-> invoked, started |-> startedPrds],
                                     aggregator.internalProvider)
                 ELSE [invoked |-> invoked, started |-> startedPrds]
       IN  /\ invoked' = st.invoked
           /\ startedPrds' = st.started
    /\ provideErr' = Nil
    /\ aggPc' = "done"
    /\ UNCHANGED <<configured, aggregator, addIdx, rangeIdx, goroutines>>

---------------------------------------------------------------------------
(* Specification of the ProviderAggregator *)

\* the most providers that are neither the file nor the internal provider
MaxOthers == 2

OtherNames == <<"docker", "rest", "consul", "etcd">>

\* a provider of the given kind and name with every outcome of Init and
\* Provide
Outcomes(name, kind) ==
    {Provider(name, kind, ie, pe) : ie \in BOOLEAN, pe \in BOOLEAN}

RECURSIVE OtherLists(_)
OtherLists(n) ==
    IF n = 0 THEN {<<>>}
    ELSE {Append(l, prd) : l \in OtherLists(n - 1),
                           prd \in Outcomes(OtherNames[n], "other")}

\* the file provider first when configured, then the others, then the
\* internal provider when there is one
ConfiguredLists ==
    {f \o o \o i :
        f \in {<<>>} \cup {<<prd>> : prd \in Outcomes("file", "file")},
        o \in UNION {OtherLists(n) : n \in 0..MaxOthers},
        i \in {<<>>} \cup {<<prd>> : prd \in Outcomes("internal", "internal")}}

AggInit ==
    /\ configured \in ConfiguredLists
    /\ aggregator = NewAggregator
    /\ addIdx = 1
    /\ rangeIdx = 0
    /\ goroutines = {}
    /\ invoked = <<>>
    /\ startedPrds = {}
    /\ provideErr = "none"
    /\ aggPc = "new"

AggIdle ==
    /\ configured = <<>>
    /\ aggregator = NewAggregator
    /\ addIdx = 0
    /\ rangeIdx = 0
    /\ goroutines = {}
    /\ invoked = <<>>
    /\ startedPrds = {}
    /\ provideErr = "none"
    /\ aggPc = "idle"

---------------------------------------------------------------------------
(* maybeThrottledProvide *)

\* the longest throttle duration, in clock ticks
MaxDuration == 2
\* the most messages the provider emits
MaxMsgs == 3
\* capacity of the consumer's channel
ThChanCap == 1

\* a declared duration of zero taken as no declaration
EffectiveDuration_ZeroIsDefault(prd, default) ==
    IF prd.throttled /\ prd.duration # 0 THEN prd.duration ELSE default

\* lines 36-40: the duration of the provider when it implements throttled,
\* the default otherwise
EffectiveDuration(prd, default) ==
    IF prd.throttled THEN prd.duration ELSE default

\* the ring channel: a buffer of one message; a message sent on in()
\* replaces the one waiting, a receive on out() takes it
RingIn_KeepOldest(ring, msg) == IF ring = <<>> THEN <<msg>> ELSE ring

RingIn(ring, msg) == <<msg>>

RingOutReady(ring) == ring # <<>>

\* time.Sleep(providerThrottleDuration): how long the goroutine sleeps
SleepDuration_None(d) == 0

SleepDuration(d) == d

\* maybeThrottledProvide(prd, defaultDuration)(configurationChan, pool):
\* unthrottled it is prd.Provide; throttled it makes the ring channel,
\* starts the goroutine and calls prd.Provide(rc.in(), pool)
ThrottledProvide ==
    /\ thPc = "call"
    /\ providerThrottleDuration' = EffectiveDuration(thPrd, defaultDuration)
    /\ thFwPc' = IF providerThrottleDuration' = 0 THEN "none" ELSE "select"
    /\ thPc' = "provided"
    /\ UNCHANGED <<thPrd, defaultDuration, rc, thChan, thEmitted, thFwMsg,
                   sleepLeft, sinceDelivery, lastGap, thReceived, thCtxDone>>

\* the provider sends its next message on the channel Provide was given:
\* configurationChan when unthrottled (blocking while it is full), rc.in()
\* when throttled
ThrottledEmit ==
    /\ thPc = "provided"
    /\ thEmitted < thPrd.toEmit
    /\ IF providerThrottleDuration = 0
       THEN /\ Len(thChan) < ThChanCap
            /\ thChan' = Append(thChan, thEmitted + 1)
            /\ rc' = rc
       ELSE /\ rc' = RingIn(rc, thEmitted + 1)
            /\ thChan' = thChan
    /\ thEmitted' = thEmitted + 1
    /\ UNCHANGED <<thPrd, defaultDuration, providerThrottleDuration, thPc,
                   thFwPc, thFwMsg, sleepLeft, sinceDelivery, lastGap,
                   thReceived, thCtxDone>>

\* select { case <-ctx.Done(): return; case msg := <-rc.out(): ... }
ThrottleSelect ==
    /\ thFwPc = "select"
    /\ \/ /\ thCtxDone
          /\ thFwPc' = "exit"
          /\ UNCHANGED <<rc, thFwMsg>>
       \/ /\ RingOutReady(rc)
          /\ thFwMsg' = rc[1]
          /\ rc' = <<>>
          /\ thFwPc' = "send"
    /\ UNCHANGED <<thPrd, defaultDuration, providerThrottleDuration, thPc,
                   thChan, thEmitted, sleepLeft, sinceDelivery, lastGap,
                   thReceived, thCtxDone>>

\* configurationChan <- msg, then time.Sleep begins
ThrottleSend ==
    /\ thFwPc = "send"
    /\ Len(thChan) < ThChanCap
    /\ thChan' = Append(thChan, thFwMsg)
    /\ lastGap' = sinceDelivery
    /\ sinceDelivery' = 0
    /\ sleepLeft' = SleepDuration(providerThrottleDuration)
    /\ thFwPc' = "sleep"
    /\ UNCHANGED <<thPrd, defaultDuration, providerThrottleDuration, thPc, rc,
                   thEmitted, thFwMsg, thReceived, thCtxDone>>

\* time.Sleep returns, not before the duration has passed
ThrottleWake ==
    /\ thFwPc = "sleep"
    /\ sleepLeft = 0
    /\ thFwPc' = "select"
    /\ UNCHANGED <<thPrd, defaultDuration, providerThrottleDuration, thPc, rc,
                   thChan, thEmitted, thFwMsg, sleepLeft, sinceDelivery,
                   lastGap, thReceived, thCtxDone>>

\* one tick of the clock; the time since the last delivery is counted up
\* to MaxDuration, which no throttle duration exceeds
ThrottleTick ==
    /\ thPc = "provided"
    /\ sleepLeft' = IF sleepLeft > 0 THEN sleepLeft - 1 ELSE 0
    /\ sinceDelivery' = IF sinceDelivery >= 0 /\ sinceDelivery < MaxDuration
                        THEN sinceDelivery + 1 ELSE sinceDelivery
    /\ UNCHANGED <<thPrd, defaultDuration, providerThrottleDuration, thPc, rc,
                   thChan, thEmitted, thFwPc, thFwMsg, lastGap, thReceived,
                   thCtxDone>>

\* the pool is stopped
ThrottleCancel ==
    /\ thPc = "provided"
    /\ ~thCtxDone
    /\ thCtxDone' = TRUE
    /\ UNCHANGED <<thPrd, defaultDuration, providerThrottleDuration, thPc, rc,
                   thChan, thEmitted, thFwPc, thFwMsg, sleepLeft,
                   sinceDelivery, lastGap, thReceived>>

\* the consumer receives from configurationChan
ThrottleConsume ==
    /\ thChan # <<>>
    /\ thReceived' = Append(thReceived, Head(thChan))
    /\ thChan' = Tail(thChan)
    /\ UNCHANGED <<thPrd, defaultDuration, providerThrottleDuration, thPc, rc,
                   thEmitted, thFwPc, thFwMsg, sleepLeft, sinceDelivery,
                   lastGap, thCtxDone>>

ThInit ==
    /\ thPrd \in {[throttled |-> t, duration |-> d, toEmit |-> n] :
                    t \in BOOLEAN, d \in 0..MaxDuration, n \in 0..MaxMsgs}
    /\ ~thPrd.throttled => thPrd.duration = 0
    /\ defaultDuration \in 0..MaxDuration
    /\ providerThrottleDuration = 0
    /\ thPc = "call"
    /\ rc = <<>>
    /\ thChan = <<>>
    /\ thEmitted = 0
    /\ thFwPc = "none"
    /\ thFwMsg = 0
    /\ sleepLeft = 0
    /\ sinceDelivery = -1
    /\ lastGap = -1
    /\ thReceived = <<>>
    /\ thCtxDone = FALSE

ThIdle ==
    /\ thPrd = [throttled |-> FALSE, duration |-> 0, toEmit |-> 0]
    /\ defaultDuration = 0
    /\ providerThrottleDuration = 0
    /\ thPc = "idle"
    /\ rc = <<>>
    /\ thChan = <<>>
    /\ thEmitted = 0
    /\ thFwPc = "none"
    /\ thFwMsg = 0
    /\ sleepLeft = 0
    /\ sinceDelivery = -1
    /\ lastGap = -1
    /\ thReceived = <<>>
    /\ thCtxDone = FALSE

---------------------------------------------------------------------------
(* connPool *)

\* the largest maxIdleConn
MaxIdleConn == 2
\* the most connections the dialer makes
MaxDials == 2
\* the longest idleConnTimeout, in clock ticks
MaxTimeout == 1
\* the goroutines that use the pool
Clients == {"c1", "c2"}

NoConn == 0

\* a *conn: the time since idleAt (counted up to one tick past the
\* timeout), broken, the token in idleCh (capacity 1), the position of its
\* readLoop, and whether Close was called on it
NewConn ==
    [sinceIdleAt |-> 0, broken |-> FALSE, closed |-> FALSE, idleCh |-> 0,
     readLoop |-> "wait"]

\* a closed connection: nothing of it is read any more
ClosedConn ==
    [sinceIdleAt |-> 0, broken |-> FALSE, closed |-> TRUE, idleCh |-> 0,
     readLoop |-> "exit"]

Close(cs, id) == [cs EXCEPT ![id] = ClosedConn]

\* conn.isExpired
\* time.Now().After(c.idleAt.Add(c.idleTimeout))
isExpired(co, timeout) == timeout > 0 /\ co.sinceIdleAt > timeout

\* conn.isBroken reads c.broken without synchronisation while readLoop may
\* have written it: the read returns the value written or the one before
isBroken(co) == IF co.broken THEN {TRUE, FALSE} ELSE {FALSE}

\* conn.markAsIdle: idleAt is set only when idleCh takes the token
markAsIdle(co) ==
    IF co.idleCh = 0 THEN [co EXCEPT !.idleCh = 1, !.sinceIdleAt = 0] ELSE co

\* connPool.releaseConn: send on idleConns, or Close when it is full
releaseConn_Unbounded(idle, cs, id, cap) ==
    [idleConns |-> Append(idle, id), conns |-> cs]

releaseConn(idle, cs, id, cap) ==
    IF Len(idle) < cap
    THEN [idleConns |-> Append(idle, id), conns |-> cs]
    ELSE [idleConns |-> idle, conns |-> Close(cs, id)]

\* the observer of cleanIdleConns: the connections that were idle and neither
\* expired nor broken when it was called, while nothing else has happened
NoSweep == [phase |-> "none", healthy |-> {}]

\* AcquireConn, lines 126-137, for the connection acquireConn returned:
\* return it, or close it and go round the loop again
Examine(c, id) ==
    \E seenBroken \in isBroken(conns[id]) :
        IF ~isExpired(conns[id], idleConnTimeout) /\ ~seenBroken
        THEN /\ clients' = [clients EXCEPT ![c] = [pc |-> "hold", co |-> id]]
             /\ UNCHANGED conns
        ELSE /\ conns' = Close(conns, id)
             /\ clients' = [clients EXCEPT ![c] = [pc |-> "retry", co |-> NoConn]]

\* acquireConn, first select: a connection of idleConns, or by default a
\* goroutine that dials
AcquireSelect(c) ==
    /\ clients[c].pc \in {"idle", "retry"}
    /\ IF idleConns # <<>>
       THEN /\ Examine(c, Head(idleConns))
            /\ idleConns' = Tail(idleConns)
            /\ UNCHANGED dials
       ELSE /\ dials[c] = "none"
            /\ dials' = [dials EXCEPT ![c] = "run"]
            /\ clients' = [clients EXCEPT ![c] = [pc |-> "wait", co |-> NoConn]]
            /\ UNCHANGED <<idleConns, conns>>
    /\ sweep' = NoSweep
    /\ UNCHANGED <<maxIdleConn, idleConnTimeout, janitor>>

\* acquireConn, second select: a connection of idleConns; the goroutine
\* that dials goes on by itself
AcquireWait(c) ==
    /\ clients[c].pc = "wait"
    /\ idleConns # <<>>
    /\ Examine(c, Head(idleConns))
    /\ idleConns' = Tail(idleConns)
    /\ dials' = [dials EXCEPT ![c] = IF @ = "run" THEN "orphan" ELSE @]
    /\ sweep' = NoSweep
    /\ UNCHANGED <<maxIdleConn, idleConnTimeout, janitor>>

\* ReleaseConn(co) by the goroutine that holds co
ReleaseConn(c) ==
    /\ clients[c].pc = "hold"
    /\ LET id == clients[c].co
           marked == [conns EXCEPT ![id] = markAsIdle(@)]
           res == releaseConn(idleConns, marked, id, maxIdleConn)
       IN  /\ idleConns' = res.idleConns
           /\ conns' = res.conns
    /\ clients' = [clients EXCEPT ![c] = [pc |-> "idle", co |-> NoConn]]
    /\ sweep' = NoSweep
    /\ UNCHANGED <<maxIdleConn, idleConnTimeout, dials, janitor>>

\* askForNewConn: the dialer fails and AcquireConn, when it still waits,
\* returns the error taken from errCh; or a new connection is released to
\* the pool
AskForNewConn(c) ==
    /\ dials[c] \in {"run", "orphan"}
    /\ \/ /\ clients' = IF dials[c] = "run"
                        THEN [clients EXCEPT ![c] = [pc |-> "idle", co |-> NoConn]]
                        ELSE clients
          /\ UNCHANGED <<conns, idleConns>>
       \/ /\ Len(conns) < MaxDials
          /\ LET id == Len(conns) + 1
                 res == releaseConn(idleConns, Append(conns, NewConn),
                                    id, maxIdleConn)
             IN  /\ idleConns' = res.idleConns
                 /\ conns' = res.conns
          /\ UNCHANGED clients
    /\ dials' = [dials EXCEPT ![c] = "none"]
    /\ sweep' = NoSweep
    /\ UNCHANGED <<maxIdleConn, idleConnTimeout, janitor>>

\* the connections that goroutines hold
Held == {clients[c].co : c \in Clients} \ {NoConn}

\* conn.readLoop: take the token of idleCh, then Peek(1) returns an error
\* and the connection is marked broken, or returns the data of a response
\* while the connection is in use
ReadLoop(id) ==
    /\ ~conns[id].closed
    /\ \/ /\ conns[id].readLoop = "wait"
          /\ conns[id].idleCh = 1
          /\ conns' = [conns EXCEPT ![id].idleCh = 0, ![id].readLoop = "peek"]
       \/ /\ conns[id].readLoop = "peek"
          /\ \/ conns' = [conns EXCEPT ![id].broken = TRUE, ![id].readLoop = "exit"]
             \/ /\ id \in Held
                /\ conns' = [conns EXCEPT ![id].readLoop = "wait"]
    /\ sweep' = NoSweep
    /\ UNCHANGED <<maxIdleConn, idleConnTimeout, idleConns, clients,
                   dials, janitor>>

\* the ticker of newConnPool fires: cleanIdleConns is called
JanitorTick ==
    /\ idleConnTimeout > 0
    /\ janitor.pc = "idle"
    /\ janitor' = [pc |-> "select", co |-> NoConn]
    /\ sweep' = [phase |-> "running",
                 healthy |-> {idleConns[i] : i \in
                     {j \in DOMAIN idleConns :
                         /\ ~isExpired(conns[idleConns[j]], idleConnTimeout)
                         /\ ~conns[idleConns[j]].broken}}]
    /\ UNCHANGED <<maxIdleConn, idleConnTimeout, conns, idleConns,
                   clients, dials>>

\* cleanIdleConns, one turn of the loop: take a connection and examine it,
\* or return by default when idleConns is empty
CleanSelect ==
    /\ janitor.pc = "select"
    /\ IF idleConns = <<>>
       THEN /\ janitor' = [pc |-> "idle", co |-> NoConn]
            /\ sweep' = [sweep EXCEPT !.phase = IF @ = "running" THEN "done" ELSE @]
            /\ UNCHANGED <<conns, idleConns>>
       ELSE LET id == Head(idleConns)
            IN  /\ idleConns' = Tail(idleConns)
                /\ \E seenBroken \in isBroken(conns[id]) :
                      IF ~isExpired(conns[id], idleConnTimeout) /\ ~seenBroken
                      THEN /\ janitor' = [pc |-> "release", co |-> id]
                           /\ UNCHANGED conns
                      ELSE /\ conns' = Close(conns, id)
                           /\ UNCHANGED janitor
                /\ UNCHANGED sweep
    /\ UNCHANGED <<maxIdleConn, idleConnTimeout, clients, dials>>

\* cleanIdleConns, lines 153-154: c.releaseConn(co); return
CleanRelease ==
    /\ janitor.pc = "release"
    /\ LET res == releaseConn(idleConns, conns, janitor.co, maxIdleConn)
       IN  /\ idleConns' = res.idleConns
           /\ conns' = res.conns
    /\ janitor' = [pc |-> "idle", co |-> NoConn]
    /\ sweep' = [sweep EXCEPT !.phase = IF @ = "running" THEN "done" ELSE @]
    /\ UNCHANGED <<maxIdleConn, idleConnTimeout, clients, dials>>

\* one tick of the clock; without a timeout no connection expires and the
\* time is not read
PoolClock ==
    /\ idleConnTimeout > 0
    /\ conns' = [id \in DOMAIN conns |->
                    IF ~conns[id].closed /\ conns[id].sinceIdleAt <= idleConnTimeout
                    THEN [conns[id] EXCEPT !.sinceIdleAt = @ + 1]
                    ELSE conns[id]]
    /\ sweep' = NoSweep
    /\ UNCHANGED <<maxIdleConn, idleConnTimeout, idleConns, clients, dials,
                   janitor>>

\* newConnPool(maxIdleConn, idleConnTimeout, dialer)
PoolInit ==
    /\ maxIdleConn \in 1..MaxIdleConn
    /\ idleConnTimeout \in 0..MaxTimeout
    /\ conns = <<>>
    /\ idleConns = <<>>
    /\ clients = [c \in Clients |-> [pc |-> "idle", co |-> NoConn]]
    /\ dials = [c \in Clients |-> "none"]
    /\ janitor = [pc |-> "idle", co |-> NoConn]
    /\ sweep = NoSweep

PoolIdle ==
    /\ maxIdleConn = 0
    /\ idleConnTimeout = 0
    /\ conns = <<>>
    /\ idleConns = <<>>
    /\ clients = <<>>
    /\ dials = <<>>
    /\ janitor = [pc |-> "none", co |-> NoConn]
    /\ sweep = NoSweep

---------------------------------------------------------------------------
(* brotliResponseWriter (pkg/middlewares/compress/brotli/brotli.go).      *)
(* One request is served: the next handler calls WriteHeader, Write and   *)
(* Flush on the writer, and the middleware calls Close when the handler   *)
(* has returned.  A body byte is a positive number, and the handler       *)
(* writes the bytes 1, 2, 3, ... in chunks, so that every byte of a body  *)
(* is different from the others.  What reaches the wrapped ResponseWriter *)
(* is a sequence of tokens: [enc |-> "raw", b |-> n] for a byte written   *)
(* as it is, [enc |-> "br", b |-> n] for a byte that went through the     *)
(* encoder, and [enc |-> "br", b |-> 0] for the bytes the encoder adds    *)
(* when it is flushed or closed.                                          *)

MaxMinSize == 2     \* minSize ranges over 1..MaxMinSize
MaxChunk   == 2     \* a Write passes 0..MaxChunk bytes
MaxCalls   == 3     \* calls of the handler on the writer
StatusOK   == 200
StatusCodes == {StatusOK, 299}

(* Content-Type header values, "" when the header is absent, and what     *)
(* mime.ParseMediaType returns for each of them.                          *)
ContentTypes == {"", "text/html", "application/grpc", "application/grpc; v=1", ";"}

ParseMediaType(ct) ==
    CASE ct = "text/html"             -> [mediaType |-> "text/html", params |-> {}, err |-> FALSE]
      [] ct = "application/grpc"      -> [mediaType |-> "application/grpc", params |-> {}, err |-> FALSE]
      [] ct = "application/grpc; v=1" -> [mediaType |-> "application/grpc", params |-> {<<"v", "1">>}, err |-> FALSE]
      [] OTHER                        -> [mediaType |-> "", params |-> {}, err |-> TRUE]

(* parsedContentType.equals *)
equals(p, mediaType, params) ==
    IF p.mediaType # mediaType THEN FALSE
    ELSE IF p.params = {} THEN TRUE
    ELSE p.params = params

(* the configured lists of excluded content types, as NewMiddleware parses them *)
ExcludedLists ==
    { <<>>,
      <<[mediaType |-> "application/grpc", params |-> {}]>>,
      <<[mediaType |-> "application/grpc", params |-> {<<"v", "2">>}]>> }

isExcluded(b, ct) ==
    LET parsed == ParseMediaType(ct)
    IN  \E i \in 1..Len(b.excludedContentTypes) :
            equals(b.excludedContentTypes[i], parsed.mediaType, parsed.params)

(* ---- the wrapped http.ResponseWriter ---- *)
NoHeader == [ce |-> "", vary |-> <<>>, cl |-> FALSE, ct |-> ""]

NewRw(h) == [header |-> h, wroteHeader |-> FALSE, code |-> 0, sent |-> NoHeader, body |-> <<>>]

(* rw.WriteHeader: the first call fixes the status code and the headers of *)
(* the response; later calls and later changes of the header map are      *)
(* without effect on the response.                                        *)
RwWriteHeader(w, code) ==
    IF w.wroteHeader THEN w
    ELSE [w EXCEPT !.wroteHeader = TRUE, !.code = code, !.sent = w.header]

Raw(p) == [i \in 1..Len(p) |-> [enc |-> "raw", b |-> p[i]]]

(* rw.Write: an implicit WriteHeader(200), then the bytes *)
RwWrite(w, p) ==
    LET h == RwWriteHeader(w, StatusOK)
    IN  [h EXCEPT !.body = @ \o Raw(p)]

(* rw.Flush: an implicit WriteHeader(200) *)
RwFlush(w) == RwWriteHeader(w, StatusOK)

(* ---- the brotli encoder ---- *)
NewBw(short) == [in |-> <<>>, pending |-> <<>>, closed |-> 0, short |-> short]

Encoded(p) == [i \in 1..Len(p) |-> [enc |-> "br", b |-> p[i]]]

(* the numbers of bytes a call bw.Write(p) may report as accepted *)
Accepts(e, p) == IF e.short THEN 0..Len(p) ELSE {Len(p)}

(* bw.Write(p) accepting the first n bytes of p *)
BwWrite(e, p, n) ==
    [e EXCEPT !.in = @ \o SubSeq(p, 1, n), !.pending = @ \o SubSeq(p, 1, n)]

(* bw.Flush and bw.Close hand the encoded bytes to rw; er is <<bw, rw>> *)
BwFlush(er) ==
    <<[er[1] EXCEPT !.pending = <<>>],
      [RwWriteHeader(er[2], StatusOK) EXCEPT
          !.body = @ \o Encoded(er[1].pending) \o <<[enc |-> "br", b |-> 0]>>]>>

BwClose(er) ==
    LET f == BwFlush(er)
    IN  <<[f[1] EXCEPT !.closed = @ + 1], f[2]>>

(* ---- brotliResponseWriter ---- *)
NewWriter(minSize, excluded) ==
    [minSize |-> minSize, excludedContentTypes |-> excluded, buf |-> <<>>,
     statusCode |-> StatusOK, skipCompression |-> FALSE,
     compressionStarted |-> FALSE, headersSent |-> FALSE, seenData |-> FALSE]

(* A call of a method of the writer works on st = [b, rw, bw, n, err]:    *)
(* the writer, the wrapped writer, the encoder, and what the call         *)
(* returns.                                                               *)
Ret(b, w, e, n, err) == [b |-> b, rw |-> w, bw |-> e, n |-> n, err |-> err]

DropN(s, n) == SubSeq(s, n + 1, Len(s))

(* Write, lines 85-109: the call that starts the compression.  n1 is what *)
(* bw.Write(b.buf) accepts, n2 what bw.Write(p) accepts.                  *)
startCompression(b, w, e, p, n1, n2) ==
    LET h  == [w.header EXCEPT !.cl = FALSE, !.vary = @ \o <<"Accept-Encoding">>, !.ce = "br"]
        w1 == RwWriteHeader([w EXCEPT !.header = h], b.statusCode)
        b1 == [b EXCEPT !.compressionStarted = TRUE, !.headersSent = TRUE]
        e1 == BwWrite(e, b.buf, n1)
    IN  IF n1 < Len(b.buf)
        THEN Ret([b1 EXCEPT !.buf = DropN(b.buf, n1) \o p], w1, e1, Len(p), FALSE)
        ELSE Ret([b1 EXCEPT !.buf = <<>>], w1, BwWrite(e1, p, n2), n2, FALSE)

(* brotliResponseWriter.Write(p) *)
brwWrite(b, w, e, p, n1, n2) ==
    LET b0 == [b EXCEPT !.seenData = @ \/ Len(p) > 0]
        ct == w.header.ct
    IN  IF b0.skipCompression THEN Ret(b0, RwWrite(w, p), e, Len(p), FALSE)
        ELSE IF b0.compressionStarted THEN Ret(b0, w, BwWrite(e, p, n2), n2, FALSE)
        ELSE IF w.header.ce # ""
        THEN Ret([b0 EXCEPT !.skipCompression = TRUE], RwWrite(w, p), e, Len(p), FALSE)
        ELSE IF ct # "" /\ ParseMediaType(ct).err THEN Ret(b0, w, e, 0, TRUE)
        ELSE IF ct # "" /\ isExcluded(b0, ct)
        THEN Ret([b0 EXCEPT !.skipCompression = TRUE], RwWrite(w, p), e, Len(p), FALSE)
        ELSE IF Len(b0.buf) + Len(p) < b0.minSize
        THEN Ret([b0 EXCEPT !.buf = @ \o p], w, e, Len(p), FALSE)
        ELSE startCompression(b0, w, e, p, n1, n2)

(* brotliResponseWriter.Flush(); n1 is what bw.Write(b.buf) accepts *)
brwFlush(b, w, e, n1) ==
    LET w0 == IF b.headersSent THEN w ELSE RwWriteHeader(w, b.statusCode)
        b0 == [b EXCEPT !.headersSent = TRUE]
        ct == w0.header.ct
        e1 == BwWrite(e, b0.buf, n1)
        fl == BwFlush(<<e1, w0>>)
    IN  IF ~b0.seenData THEN Ret(b0, w0, e, 0, FALSE)
        ELSE IF b0.skipCompression THEN Ret(b0, RwFlush(w0), e, 0, FALSE)
        ELSE IF w0.header.ce # ""
        THEN Ret([b0 EXCEPT !.skipCompression = TRUE], RwFlush(w0), e, 0, FALSE)
        ELSE IF ct # "" /\ ParseMediaType(ct).err THEN Ret(b0, w0, e, 0, FALSE)
        ELSE IF ct # "" /\ isExcluded(b0, ct)
        THEN Ret([b0 EXCEPT !.skipCompression = TRUE], RwFlush(w0), e, 0, FALSE)
        ELSE IF ~b0.compressionStarted THEN Ret(b0, w0, e, 0, FALSE)
        ELSE Ret([b0 EXCEPT !.buf = DropN(@, n1)], RwFlush(fl[2]), fl[1], 0, FALSE)

(* brotliResponseWriter.Close(); n1 is what bw.Write(b.buf) accepts *)
brwClose(b, w, e, n1) ==
    LET w0 == IF b.headersSent THEN w ELSE RwWriteHeader(w, b.statusCode)
        b0 == [b EXCEPT !.headersSent = TRUE]
        cl == BwClose(<<e, w0>>)
        wc == BwClose(<<BwWrite(e, b0.buf, n1), w0>>)
    IN  IF Len(b0.buf) = 0
        THEN IF ~b0.compressionStarted THEN Ret(b0, w0, e, 0, FALSE)
             ELSE Ret(b0, cl[2], cl[1], 0, FALSE)
        ELSE IF b0.compressionStarted
        THEN Ret(b0, wc[2], wc[1], 0, n1 < Len(b0.buf))
        ELSE Ret(b0, RwWrite(w0, b0.buf), e, 0, FALSE)

(* ---- the handler and the middleware ---- *)
(* the next n bytes of the body *)
Chunk(from, n) == [i \in 1..n |-> from + i]

NoHandler == [pc |-> "idle", calls |-> 0, offered |-> 0, written |-> <<>>, ce |-> ""]

Calls(st) ==
    /\ brw' = st.b
    /\ rw' = st.rw
    /\ bw' = st.bw

(* the handler calls WriteHeader(code) *)
WriteHeader(code) ==
    /\ handler.pc = "serve"
    /\ handler.calls < MaxCalls
    /\ brw' = [brw EXCEPT !.statusCode = code]
    /\ handler' = [handler EXCEPT !.calls = @ + 1]
    /\ UNCHANGED <<rw, bw>>

(* the handler calls Write with the next len bytes of its body; the bytes *)
(* that Write reports as written are the body so far                      *)
Write(len) ==
    /\ handler.pc = "serve"
    /\ handler.calls < MaxCalls
    /\ LET p == Chunk(handler.offered, len)
       IN  \E n1 \in Accepts(bw, brw.buf), n2 \in Accepts(bw, p) :
               LET st == brwWrite(brw, rw, bw, p, n1, n2)
               IN  /\ Calls(st)
                   /\ handler' = [handler EXCEPT !.calls = @ + 1,
                                                 !.offered = @ + len,
                                                 !.written = @ \o SubSeq(p, 1, st.n)]

(* the handler calls Flush *)
Flush ==
    /\ handler.pc = "serve"
    /\ handler.calls < MaxCalls
    /\ \E n1 \in Accepts(bw, brw.buf) : Calls(brwFlush(brw, rw, bw, n1))
    /\ handler' = [handler EXCEPT !.calls = @ + 1]

(* the handler returns and the deferred brw.Close() runs *)
CloseWriter ==
    /\ handler.pc = "serve"
    /\ \E n1 \in Accepts(bw, brw.buf) : Calls(brwClose(brw, rw, bw, n1))
    /\ handler' = [handler EXCEPT !.pc = "closed"]

(* NewMiddleware's handler function up to h.ServeHTTP: the writer is made *)
(* for a response whose headers the handler sets before it writes.        *)
BrInit ==
    /\ \E minSize \in 1..MaxMinSize, excluded \in ExcludedLists :
           brw = NewWriter(minSize, excluded)
    /\ \E ce \in {"", "gzip"}, ct \in ContentTypes, cl \in BOOLEAN :
           /\ rw = NewRw([ce |-> ce, vary |-> <<>>, cl |-> cl, ct |-> ct])
           /\ handler = [NoHandler EXCEPT !.pc = "serve", !.ce = ce]
    /\ \E short \in BOOLEAN : bw = NewBw(short)

BrIdle ==
    /\ brw = NewWriter(1, <<>>)
    /\ rw = NewRw(NoHeader)
    /\ bw = NewBw(FALSE)
    /\ handler = NoHandler

---------------------------------------------------------------------------
(* compress middleware (pkg/middlewares/compress/compress.go).  New builds *)
(* the middleware from its configuration, ServeHTTP hands a request to the *)
(* next handler as it is, to the brotli handler or to the gzip handler.   *)
(* Header values that the code splits are sequences of one-character      *)
(* strings.                                                               *)

DefaultMinSize == 1024

(* strings.TrimSpace *)
RECURSIVE TrimLeft(_)
TrimLeft(s) == IF s # <<>> /\ Head(s) = " " THEN TrimLeft(Tail(s)) ELSE s

RECURSIVE TrimRight(_)
TrimRight(s) ==
    IF s # <<>> /\ s[Len(s)] = " " THEN TrimRight(SubSeq(s, 1, Len(s) - 1)) ELSE s

TrimSpace(s) == TrimRight(TrimLeft(s))

(* brotli.AcceptsBr *)
AcceptsBr(acceptEncoding) ==
    LET vs == Split(acceptEncoding, ",")
    IN  \E i \in 1..Len(vs) :
            LET encodings == Split(TrimSpace(vs[i]), ";")
            IN  encodings[1] = <<"b", "r">> \/ encodings[1] = <<"*">>

(* contains *)
contains(values, val) == \E i \in 1..Len(values) : values[i] = val

(* the values of the Accept-Encoding header of the request *)
AcceptEncodings ==
    { <<>>,
      <<" ">>,
      <<"b", "r">>,
      <<"g", "z", "i", "p">>,
      <<"g", "z", "i", "p", ",", " ", "b", "r">>,
      <<"g", "z", "i", "p", ",", "*", ";", "q", "=", "1">>,
      <<"x", "b", "r">> }

(* the values of conf.ExcludedContentTypes *)
ConfExcludedLists == { <<>>, <<"text/html">> }

(* New: the excludes and the minimum size of the middleware *)
RECURSIVE mediaTypes(_)
mediaTypes(list) ==
    IF list = <<>> THEN <<>>
    ELSE <<ParseMediaType(Head(list)).mediaType>> \o mediaTypes(Tail(list))

New(cnf) ==
    [excludes |-> <<"application/grpc">> \o mediaTypes(cnf.ExcludedContentTypes),
     minSize  |-> IF cnf.MinResponseBodyBytes > 0 THEN cnf.MinResponseBodyBytes
                  ELSE DefaultMinSize]

(* newBrotliHandler: the writer brotli.NewMiddleware makes for a request   *)
(* from Config{Compression, MinSize}                                       *)
newBrotliHandler(c) == NewWriter(c.minSize, <<>>)

(* compress.ServeHTTP: the handler the request goes to *)
serveHTTP(c, r) ==
    IF r.method = "HEAD" THEN "next"
    ELSE IF contains(c.excludes, ParseMediaType(r.contentType).mediaType) THEN "next"
    ELSE IF TrimSpace(r.acceptEncoding) = <<>> THEN "next"
    ELSE IF AcceptsBr(TrimSpace(r.acceptEncoding)) THEN "brotli"
    ELSE "gzip"

NoRequest == [method |-> "", contentType |-> "", acceptEncoding |-> <<>>]

(* ServeHTTP is called with the request; when the request goes to the      *)
(* brotli handler, the writer is made and the next handler starts with the *)
(* headers of its response.                                               *)
ServeHTTP ==
    /\ route = "none"
    /\ req # NoRequest
    /\ route' = serveHTTP(compressConf, req)
    /\ IF route' = "brotli"
       THEN /\ brw' = newBrotliHandler(compressConf)
            /\ \E ce \in {"", "gzip"}, ct \in ContentTypes, cl \in BOOLEAN :
                   /\ rw' = NewRw([ce |-> ce, vary |-> <<>>, cl |-> cl, ct |-> ct])
                   /\ handler' = [NoHandler EXCEPT !.pc = "serve", !.ce = ce]
            /\ \E short \in BOOLEAN : bw' = NewBw(short)
       ELSE UNCHANGED <<brw, rw, bw, handler>>
    /\ UNCHANGED <<compressConf, req>>

CmpInit ==
    /\ \E excluded \in ConfExcludedLists, min \in 0..MaxMinSize :
           compressConf = New([ExcludedContentTypes |-> excluded, MinResponseBodyBytes |-> min])
    /\ \E method \in {"GET", "HEAD"}, ct \in {"", "text/html", "application/grpc"},
          ae \in AcceptEncodings :
           req = [method |-> method, contentType |-> ct, acceptEncoding |-> ae]
    /\ route = "none"

CmpIdle ==
    /\ compressConf = [excludes |-> <<>>, minSize |-> 0]
    /\ req = NoRequest
    /\ route = "none"

---------------------------------------------------------------------------
(* clientWrapper.Update...Status (unnamed/part_001).  One call updates the *)
(* status of one object.  The lister hands out the object of the informer *)
(* cache, objects[1]; DeepCopy makes objects[2]; UpdateStatus sends an     *)
(* object to the API server, which accepts it, refuses it with a conflict *)
(* or fails.  The informer replaces the cached object when the object has *)
(* changed on the server, once during a call at most.                     *)

controllerName == "traefik.io/gateway-controller"

RouteKinds == {"HTTPRoute", "GRPCRoute", "TCPRoute", "TLSRoute"}
Kinds == {"GatewayClass", "Gateway"} \cup RouteKinds

MaxParents       == 2   \* entries of a route's Status.Parents
MaxListeners     == 2   \* entries of a gateway's Status.Listeners
DefaultRetrySteps == 5  \* retry.DefaultRetry.Steps

Condition(status, time) ==
    [Type |-> "Accepted", Status |-> status, Reason |-> "Accepted", Message |-> "",
     ObservedGeneration |-> 1, LastTransitionTime |-> time]

(* the conditions of an object in the cache, and those a provider computes *)
(* now (time 2)                                                            *)
CachedConditions   == {<<Condition("True", 1)>>, <<Condition("False", 1)>>}
ComputedConditions == {<<Condition("True", 2)>>, <<Condition("False", 2)>>}

(* conditionsEqual *)
conditionsEqual(conditionsA, conditionsB) ==
    /\ Len(conditionsA) = Len(conditionsB)
    /\ \A i \in 1..Len(conditionsA) :
           LET cA == conditionsA[i]
               cB == conditionsB[i]
           IN  /\ cA.Type = cB.Type
               /\ cA.Reason = cB.Reason
               /\ cA.Status = cB.Status
               /\ cA.Message = cB.Message
               /\ cA.ObservedGeneration = cB.ObservedGeneration

(* routeParentStatusEqual *)
routeParentStatusEqual(sA, sB) ==
    /\ sA.ParentRef = sB.ParentRef
    /\ sA.ControllerName = sB.ControllerName
    /\ conditionsEqual(sA.Conditions, sB.Conditions)

(* routeParentStatusesEqual *)
routeParentStatusesEqual(A, B) ==
    /\ Len(A) = Len(B)
    /\ \A i \in 1..Len(A) : \E j \in 1..Len(B) : routeParentStatusEqual(B[j], A[i])
    /\ \A j \in 1..Len(B) : \E i \in 1..Len(A) : routeParentStatusEqual(A[i], B[j])

(* gatewayStatusEqual *)
RECURSIVE SumSeq(_)
SumSeq(s) == IF s = <<>> THEN 0 ELSE Head(s) + SumSeq(Tail(s))

gatewayStatusEqual(statusA, statusB) ==
    LET named(n, o) == n.Name = o.Name
        differs == \E j \in 1..Len(statusB.Listeners), i \in 1..Len(statusA.Listeners) :
                      /\ named(statusB.Listeners[j], statusA.Listeners[i])
                      /\ \/ ~conditionsEqual(statusB.Listeners[j].Conditions,
                                             statusA.Listeners[i].Conditions)
                         \/ statusB.Listeners[j].AttachedRoutes # statusA.Listeners[i].AttachedRoutes
        listenerMatches ==
            SumSeq([j \in 1..Len(statusB.Listeners) |->
                        Cardinality({i \in 1..Len(statusA.Listeners) :
                                        named(statusB.Listeners[j], statusA.Listeners[i])})])
    IN  /\ Len(statusA.Listeners) = Len(statusB.Listeners)
        /\ conditionsEqual(statusA.Conditions, statusB.Conditions)
        /\ ~differs
        /\ listenerMatches = Len(statusA.Listeners)

(* the entries of the current status that other controllers wrote, lines   *)
(* 486-491 and 535-540                                                     *)
RECURSIVE othersOf_KeepsOwn(_)
othersOf_KeepsOwn(parents) ==
    IF parents = <<>> THEN <<>>
    ELSE IF Head(parents).ControllerName = controllerName
         THEN <<Head(parents)>> \o othersOf_KeepsOwn(Tail(parents))
    ELSE othersOf_KeepsOwn(Tail(parents))

RECURSIVE othersOf(_)
othersOf(parents) ==
    IF parents = <<>> THEN <<>>
    ELSE IF Head(parents).ControllerName # controllerName
         THEN <<Head(parents)>> \o othersOf(Tail(parents))
    ELSE othersOf(Tail(parents))

(* the Status.Parents an attempt wants to write *)
parentStatuses(kind, current, status) ==
    IF kind = "GRPCRoute" THEN othersOf(current.Parents) \o status.Parents
    ELSE status.Parents \o othersOf(current.Parents)

(* "do not update status when nothing has changed" *)
nothingChanged(kind, current, status) ==
    CASE kind = "GatewayClass" -> conditionsEqual(current.Conditions, status.Conditions)
      [] kind = "Gateway"      -> gatewayStatusEqual(current, status)
      [] kind = "GRPCRoute"    -> FALSE
      [] OTHER -> routeParentStatusesEqual(current.Parents,
                                           parentStatuses(kind, current, status))

(* the status the attempt assigns to the copy *)
newStatus(kind, current, status) ==
    IF kind \in RouteKinds
    THEN [Conditions |-> <<>>, Listeners |-> <<>>,
          Parents |-> parentStatuses(kind, current, status)]
    ELSE status

(* DeepCopy of the object at from, into the place to *)
DeepCopy_Alias(objs, from, to) == [ptr |-> from, objs |-> objs]

DeepCopy(objs, from, to) == [ptr |-> to, objs |-> [objs EXCEPT ![to] = objs[from]]]

(* RetryOnConflict: whether the function is called again after err *)
retries_OnAnyError(err, attempts) == err # "nil" /\ attempts < DefaultRetrySteps

retries(err, attempts) == err = "conflict" /\ attempts < DefaultRetrySteps

NoStatus == [Conditions |-> <<>>, Listeners |-> <<>>, Parents |-> <<>>]
NoObject == [found |-> FALSE, Status |-> NoStatus]
NoCall   == [obj |-> 0, read |-> NoStatus, status |-> NoStatus, result |-> "none"]

(* Update...Status up to RetryOnConflict: the namespace check *)
UpdateStatusCall ==
    /\ stPc = "call"
    /\ IF stKind # "GatewayClass" /\ ~stWatched
       THEN stPc' = "done" /\ stErr' = "not watched"
       ELSE stPc' = "retry" /\ stErr' = stErr
    /\ UNCHANGED <<stKind, stWatched, stArg, objects, stAttempts, stReads, stWrites,
                   stLast, stSynced>>

(* one call of the function given to RetryOnConflict, with the result of   *)
(* UpdateStatus when it is called                                         *)
Attempt ==
    /\ stPc = "retry"
    /\ stAttempts' = stAttempts + 1
    /\ stReads' = stReads + 1
    /\ IF ~objects[1].found
       THEN /\ stErr' = "not found"
            /\ UNCHANGED <<objects, stWrites, stLast>>
       ELSE IF nothingChanged(stKind, objects[1].Status, stArg)
       THEN /\ stErr' = "nil"
            /\ UNCHANGED <<objects, stWrites, stLast>>
       ELSE LET cp == DeepCopy(objects, 1, 2)
                st == newStatus(stKind, objects[1].Status, stArg)
            IN  /\ objects' = [cp.objs EXCEPT ![cp.ptr].Status = st]
                /\ stWrites' = stWrites + 1
                /\ \E result \in {"nil", "conflict", "error"} :
                       /\ stLast' = [obj |-> cp.ptr, read |-> objects[1].Status,
                                     status |-> objects'[cp.ptr].Status, result |-> result]
                       /\ stErr' = result
    /\ stPc' = IF retries(stErr', stAttempts') THEN "retry" ELSE "done"
    /\ UNCHANGED <<stKind, stWatched, stArg, stSynced>>

(* the statuses of the objects of a kind in the cache, and the statuses    *)
(* the provider passes                                                     *)
ParentEntries(conds) ==
    { [ParentRef |-> r, ControllerName |-> controllerName, Conditions |-> c] :
          r \in {"gw1", "gw2"}, c \in conds }
    \cup
    { [ParentRef |-> r, ControllerName |-> "other", Conditions |-> <<Condition("True", 1)>>] :
          r \in {"gw1", "gw2"} }

OwnEntries(conds) == {e \in ParentEntries(conds) : e.ControllerName = controllerName}

SeqsUpTo(S, n) == UNION {[1..k -> S] : k \in 0..n}

ListenerEntries(conds) ==
    { [Name |-> n, Conditions |-> c, AttachedRoutes |-> a] :
          n \in {"l1", "l2"}, c \in conds, a \in {0, 1} }

ListenerLists(conds) ==
    { l \in SeqsUpTo(ListenerEntries(conds), MaxListeners) :
          \A i, j \in 1..Len(l) : i # j => l[i].Name # l[j].Name }

Statuses(kind, conds, entries) ==
    CASE kind = "GatewayClass" ->
            { [NoStatus EXCEPT !.Conditions = c] : c \in conds }
      [] kind = "Gateway" ->
            { [Conditions |-> c, Listeners |-> l, Parents |-> <<>>] :
                  c \in conds, l \in ListenerLists({<<Condition("True", 1)>>}) }
      [] OTHER ->
            { [NoStatus EXCEPT !.Parents = p] : p \in SeqsUpTo(entries, MaxParents) }

(* the informer replaces the cached object: another controller has added   *)
(* its entry to the status, or the object was deleted                      *)
InformerSync ==
    /\ stPc = "retry"
    /\ ~stSynced
    /\ objects[1].found
    /\ stSynced' = TRUE
    /\ \/ objects' = [objects EXCEPT ![1] = NoObject]
       \/ /\ stKind \in RouteKinds
          /\ Len(objects[1].Status.Parents) < MaxParents
          /\ objects' = [objects EXCEPT ![1].Status.Parents =
                            <<[ParentRef |-> "gw1", ControllerName |-> "other",
                               Conditions |-> <<Condition("True", 1)>>]>> \o @]
       \/ /\ stKind \notin RouteKinds
          /\ objects' = [objects EXCEPT ![1].Status.Conditions = <<Condition("False", 1)>>]
    /\ UNCHANGED <<stKind, stWatched, stArg, stPc, stAttempts, stReads, stWrites,
                   stLast, stErr>>

StInit ==
    /\ stKind \in Kinds
    /\ stWatched \in BOOLEAN
    /\ stArg \in Statuses(stKind, ComputedConditions, OwnEntries(ComputedConditions))
    /\ \E cached \in {NoObject} \cup
                     { [found |-> TRUE, Status |-> s] :
                           s \in Statuses(stKind, CachedConditions, ParentEntries(CachedConditions)) } :
           objects = <<cached, NoObject>>
    /\ stPc = "call"
    /\ stAttempts = 0
    /\ stReads = 0
    /\ stWrites = 0
    /\ stLast = NoCall
    /\ stErr = "none"
    /\ stSynced = FALSE

StIdle ==
    /\ stKind = "none"
    /\ stWatched = FALSE
    /\ stArg = NoStatus
    /\ objects = <<NoObject, NoObject>>
    /\ stPc = "idle"
    /\ stAttempts = 0
    /\ stReads = 0
    /\ stWrites = 0
    /\ stLast = NoCall
    /\ stErr = "none"
    /\ stSynced = FALSE

---------------------------------------------------------------------------
(* buildGRPCMatchRule (pkg/provider/kubernetes/gateway/grpcroute.go)       *)
(* Rules are strings, modelled as sequences of characters, so that their   *)
(* rendering and their length are those of the Go strings.                 *)

MaxHeaders == 2

\* the character U+0060, which a string of this language cannot hold
Backquote == "backquote"

StrAnd        == <<" ", "&", "&", " ">>
StrPathPrefix == <<"P", "a", "t", "h", "P", "r", "e", "f", "i", "x", "(", Backquote, "/", Backquote, ")">>
StrAnyPart    == <<"[", "^", "/", "]", "+">>
StrFoobar     == <<"f", "o", "o", "b", "a", "r">>
StrFooCom     == <<"f", "o", "o", ".", "c", "o", "m">>
StrFoo        == <<"f", "o", "o">>
StrBar        == <<"b", "a", "r">>
StrFoo2       == <<"f", "o", "o", "2">>
StrBar2       == <<"b", "a", "r", "2">>

\* strings.Join
RECURSIVE Join(_, _)
Join(elems, sep) ==
    IF elems = <<>> THEN <<>>
    ELSE IF Len(elems) = 1 THEN elems[1]
    ELSE elems[1] \o sep \o Join(Tail(elems), sep)

\* buildHostRule for no hostname or one hostname without wildcard
buildHostRule(hostnames) ==
    IF hostnames = <<>> THEN <<>>
    ELSE <<"H", "o", "s", "t", "(", Backquote>> \o hostnames[1] \o <<Backquote, ")">>

Exact == "Exact"
RegularExpression == "RegularExpression"
NoMethod == [none |-> TRUE]

\* the rule of a method match and whether an error is returned with it;
\* a nil Type is Nil, a nil Service or Method is the empty string, which
\* ptr.Deref makes of it
buildGRPCMethodRule(method) ==
    IF method = NoMethod THEN [rule |-> StrPathPrefix, err |-> FALSE]
    ELSE IF (IF method.Type = Nil THEN Exact ELSE method.Type) # Exact
    THEN [rule |-> <<>>, err |-> TRUE]
    ELSE LET sExpr == IF method.Service # <<>>
                      THEN method.Service ELSE StrAnyPart
             mExpr == IF method.Method # <<>>
                      THEN method.Method ELSE StrAnyPart
         IN  [rule |-> <<"P", "a", "t", "h", "R", "e", "g", "e", "x", "p", "(", Backquote, "/">> \o sExpr \o <<"/">> \o mExpr \o <<Backquote, ")">>,
              err  |-> FALSE]

RECURSIVE buildGRPCHeaderRules(_)
buildGRPCHeaderRules(headers) ==
    IF headers = <<>> THEN <<>>
    ELSE LET header == headers[1]
             typ    == IF header.Type = Nil THEN Exact ELSE header.Type
             rules  == IF typ = Exact
                       THEN << <<"H", "e", "a", "d", "e", "r", "(", Backquote>> \o header.Name \o <<Backquote, ",", Backquote>> \o header.Value \o <<Backquote, ")">> >>
                       ELSE IF typ = RegularExpression
                       THEN << <<"H", "e", "a", "d", "e", "r", "R", "e", "g", "e", "x", "p", "(", Backquote>> \o header.Name \o <<Backquote, ",", Backquote>> \o header.Value \o <<Backquote, ")">> >>
                       ELSE <<>>
         IN  rules \o buildGRPCHeaderRules(Tail(headers))

\* the error of buildGRPCMethodRule is dropped, its empty rule is kept
buildGRPCMatchRule(hostnames, m) ==
    LET methodRule    == buildGRPCMethodRule(m.Method).rule
        matchRules    == <<methodRule>> \o buildGRPCHeaderRules(m.Headers)
        matchRulesStr == Join(matchRules, StrAnd)
        hostRule      == buildHostRule(hostnames)
    IN  IF hostRule = <<>> THEN matchRulesStr
        ELSE hostRule \o StrAnd \o matchRulesStr

\* the inputs: the hostnames and matches of the tests, and their combinations
HostnameLists == {<<>>, <<StrFooCom>>}
MethodMatches ==
    {NoMethod} \cup [Type    : {Nil, Exact, RegularExpression},
                     Service : {<<>>, StrFoobar},
                     Method  : {<<>>, StrFoobar}]
HeaderMatches ==
    [Type : {Nil, Exact, RegularExpression}, Name : {StrFoo}, Value : {StrBar}]
        \cup [Type : {Nil}, Name : {StrFoo2}, Value : {StrBar2}]
HeaderLists ==
    UNION {[1..n -> HeaderMatches] : n \in 0..MaxHeaders}
GRPCRouteMatches == [Method : MethodMatches, Headers : HeaderLists]

NoRule == <<>>

\* one call of buildGRPCMatchRule
BuildGRPCMatchRule ==
    /\ gmPc = "call"
    /\ gmRule' = buildGRPCMatchRule(gmHostnames, gmMatch)
    /\ gmPc' = "done"
    /\ UNCHANGED <<gmHostnames, gmMatch>>

GmInit ==
    /\ gmHostnames \in HostnameLists
    /\ gmMatch \in GRPCRouteMatches
    /\ gmRule = NoRule
    /\ gmPc = "call"

GmIdle ==
    /\ gmHostnames = <<>>
    /\ gmMatch = [Method |-> NoMethod, Headers |-> <<>>]
    /\ gmRule = NoRule
    /\ gmPc = "done"

---------------------------------------------------------------------------
(* loadGRPCRoute and what it calls (grpcroute.go): the routers, services   *)
(* and middlewares of one GRPCRoute on one listener, and the ResolvedRefs  *)
(* condition returned with them. Names are strings of characters.          *)

MaxRules == 2
MaxMatches == 2
MaxBackendRefs == 2
MaxFilters == 3
MaxRouteFilters == 1

StatusInternalServerError == 500

\* strconv.FormatInt in base 10 of a number that is not negative
RECURSIVE FormatInt(_)
FormatInt(n) ==
    LET digit(d) == <<"0", "1", "2", "3", "4", "5", "6", "7", "8", "9">>[d + 1]
    IN  IF n < 10 THEN <<digit(n)>>
        ELSE FormatInt(n \div 10) \o <<digit(n % 10)>>

\* strings.ToLower of a string of ASCII letters
ToLower(s) ==
    LET upper == <<"A", "B", "C", "D", "E", "F", "G", "H", "I", "J", "K", "L", "M", "N", "O", "P", "Q", "R", "S", "T", "U", "V", "W", "X", "Y", "Z">>
        lower == <<"a", "b", "c", "d", "e", "f", "g", "h", "i", "j", "k", "l", "m", "n", "o", "p", "q", "r", "s", "t", "u", "v", "w", "x", "y", "z">>
        low(c) == IF \E k \in 1..26 : upper[k] = c
                  THEN lower[CHOOSE k \in 1..26 : upper[k] = c] ELSE c
    IN  [i \in 1..Len(s) |-> low(s[i])]

\* the ResolvedRefs condition of a route; its generation, time and message
\* play no part in what follows
ResolvedRefs(status, reason) ==
    [Type |-> "ResolvedRefs", Status |-> status, Reason |-> reason]

groupCore == "core"
NoCondition == [none |-> TRUE]
NoService == [none |-> TRUE]
StrNamespace == <<"n", "s">>

\* loadGRPCServers: the load balancer of the Kubernetes service behind a
\* ref, or an error. The cluster's answer for the ref is carried by the ref:
\* service is "missing", "noport" (the service has no such port) or "found",
\* slices the number of its endpoint slices. A nil Port is 0.
loadGRPCServers(backendRef) ==
    IF backendRef.Port = 0 THEN [lb |-> 0, err |-> TRUE]
    ELSE IF backendRef.service = "missing" THEN [lb |-> 0, err |-> TRUE]
    ELSE IF backendRef.service = "noport" THEN [lb |-> 0, err |-> TRUE]
    ELSE IF backendRef.slices = 0 THEN [lb |-> 0, err |-> TRUE]
    ELSE [lb |-> backendRef.slices, err |-> FALSE]

\* loadGRPCBackendRef with the kind looked at before the grant
loadGRPCBackendRef_KindBeforeGrant(backendRef) ==
    LET kind  == IF backendRef.Kind = Nil THEN "Service" ELSE backendRef.Kind
        group == IF backendRef.Group # Nil /\ backendRef.Group # ""
                 THEN backendRef.Group ELSE groupCore
        serviceName == StrNamespace \o <<"-">> \o backendRef.Name
        port  == backendRef.Port
        named == serviceName \o <<"-">> \o FormatInt(port)
        srv   == loadGRPCServers(backendRef)
    IN  IF group # groupCore \/ kind # "Service"
        THEN [name |-> serviceName, svc |-> NoService,
              cond |-> ResolvedRefs("False", "InvalidKind")]
        ELSE IF ~backendRef.granted
        THEN [name |-> serviceName, svc |-> NoService,
              cond |-> ResolvedRefs("False", "RefNotPermitted")]
        ELSE IF port = 0
        THEN [name |-> serviceName, svc |-> NoService,
              cond |-> ResolvedRefs("False", "UnsupportedProtocol")]
        ELSE IF srv.err
        THEN [name |-> named, svc |-> NoService,
              cond |-> ResolvedRefs("False", "BackendNotFound")]
        ELSE [name |-> named, svc |-> [LoadBalancer |-> srv.lb], cond |-> NoCondition]

\* loadGRPCBackendRef: the name, the service and the error condition of a
\* ref; granted is the answer of isReferenceGranted for it
loadGRPCBackendRef(backendRef) ==
    LET kind  == IF backendRef.Kind = Nil THEN "Service" ELSE backendRef.Kind
        group == IF backendRef.Group # Nil /\ backendRef.Group # ""
                 THEN backendRef.Group ELSE groupCore
        serviceName == StrNamespace \o <<"-">> \o backendRef.Name
        port  == backendRef.Port
        named == serviceName \o <<"-">> \o FormatInt(port)
        srv   == loadGRPCServers(backendRef)
    IN  IF ~backendRef.granted
        THEN [name |-> serviceName, svc |-> NoService,
              cond |-> ResolvedRefs("False", "RefNotPermitted")]
        ELSE IF group # groupCore \/ kind # "Service"
        THEN [name |-> serviceName, svc |-> NoService,
              cond |-> ResolvedRefs("False", "InvalidKind")]
        ELSE IF port = 0
        THEN [name |-> serviceName, svc |-> NoService,
              cond |-> ResolvedRefs("False", "UnsupportedProtocol")]
        ELSE IF srv.err
        THEN [name |-> named, svc |-> NoService,
              cond |-> ResolvedRefs("False", "BackendNotFound")]
        ELSE [name |-> named, svc |-> [LoadBalancer |-> srv.lb], cond |-> NoCondition]

\* a pointer to a number is a list of at most one number
WRRService(name, status, weight) ==
    [Name |-> name, Status |-> status, Weight |-> weight]

\* the loop of loadGRPCService over the refs from the i-th on:
\* acc is [services, wrr, condition]
RECURSIVE rangeBackendRefs(_, _, _)
rangeBackendRefs(backendRefs, i, acc) ==
    IF i > Len(backendRefs) THEN acc
    ELSE LET backendRef == backendRefs[i]
             r      == loadGRPCBackendRef(backendRef)
             weight == IF backendRef.Weight = <<>> THEN 1 ELSE backendRef.Weight[1]
         IN  IF r.cond # NoCondition
             THEN rangeBackendRefs(backendRefs, i + 1,
                      [services  |-> acc.services,
                       wrr       |-> Append(acc.wrr, WRRService(r.name, <<StatusInternalServerError>>, weight)),
                       condition |-> r.cond])
             ELSE rangeBackendRefs(backendRefs, i + 1,
                      [services  |-> IF r.svc # NoService THEN Put(acc.services, r.name, r.svc)
                                     ELSE acc.services,
                       wrr       |-> Append(acc.wrr, WRRService(r.name, <<>>, weight)),
                       condition |-> acc.condition])

\* loadGRPCService: the services of the configuration afterwards, the name of
\* the rule's weighted service and the condition, none when no ref has failed
\* or when the weighted service is there already
loadGRPCService(services, routeKey, routeRule) ==
    LET name == routeKey \o <<"-", "w", "r", "r">>
    IN  IF name \in DOMAIN services
        THEN [services |-> services, name |-> name, condition |-> NoCondition]
        ELSE LET acc == rangeBackendRefs(routeRule.BackendRefs, 1,
                            [services |-> services, wrr |-> <<>>, condition |-> NoCondition])
             IN  [services  |-> Put(acc.services, name, [Weighted |-> acc.wrr]),
                  name      |-> name,
                  condition |-> acc.condition]

StrRequestHeaderModifier == <<"R", "e", "q", "u", "e", "s", "t", "H", "e", "a", "d", "e", "r", "M", "o", "d", "i", "f", "i", "e", "r">>
StrExtensionRef          == <<"E", "x", "t", "e", "n", "s", "i", "o", "n", "R", "e", "f">>
StrRequestMirror         == <<"R", "e", "q", "u", "e", "s", "t", "M", "i", "r", "r", "o", "r">>
NoMiddleware == [none |-> TRUE]

\* the first loop of loadGRPCMiddlewares from the i-th filter on: the map
\* middlewares, or an error. ext is what loadHTTPRouteFilterExtensionRef
\* returns for an ExtensionRef filter: a name, a middleware or none, an error.
RECURSIVE rangeFilters(_, _, _, _)
rangeFilters(routerName, filters, i, middlewares) ==
    IF i > Len(filters) THEN [middlewares |-> middlewares, err |-> FALSE]
    ELSE LET filter == filters[i]
             name   == routerName \o <<"-">> \o ToLower(filter.Type)
                           \o <<"-">> \o FormatInt(i - 1)
         IN  IF filter.Type = StrRequestHeaderModifier
             THEN rangeFilters(routerName, filters, i + 1,
                      Put(middlewares, name, [RequestHeaderModifier |-> TRUE]))
             ELSE IF filter.Type = StrExtensionRef
             THEN IF filter.ext.err
                  THEN [middlewares |-> middlewares, err |-> TRUE]
                  ELSE rangeFilters(routerName, filters, i + 1,
                           Put(middlewares, filter.ext.name, filter.ext.middleware))
             ELSE [middlewares |-> middlewares, err |-> TRUE]

\* loadGRPCMiddlewares: the middleware names, the error and the middlewares
\* of the configuration afterwards; order is the order in which the range
\* over the map middlewares gives its keys
loadGRPCMiddlewares(confMiddlewares, routerName, filters, order) ==
    LET r == rangeFilters(routerName, filters, 1, <<>>)
        stored == {k \in DOMAIN r.middlewares : r.middlewares[k] # NoMiddleware}
    IN  IF r.err
        THEN [names |-> <<>>, err |-> TRUE, middlewares |-> confMiddlewares]
        ELSE [names |-> order, err |-> FALSE,
              middlewares |-> [k \in DOMAIN confMiddlewares \cup stored |->
                                  IF k \in stored THEN r.middlewares[k]
                                  ELSE confMiddlewares[k]]]

\* the orders loadGRPCMiddlewares can range in for these filters
FilterOrders(routerName, filters) ==
    Orders(DOMAIN rangeFilters(routerName, filters, 1, <<>>).middlewares)

\* makeRouterName: the route key and a hash of the rule, for which the rule
\* itself stands
makeRouterName(rule, routeKey) == routeKey \o <<"-">> \o rule

\* the route key of the rule of index ri of the route
makeRouteKey(ri) == <<"n", "s", "-", "r", "o", "u", "t", "e", "-", "g", "w", "-", "w", "e", "b", "-">> \o FormatInt(ri)

errWrr == <<WRRService(<<"i", "n", "v", "a", "l", "i", "d", "-", "h", "t", "t", "p", "r", "o", "u", "t", "e", "-", "f", "i", "l", "t", "e", "r">>, <<StatusInternalServerError>>, 1)>>

\* one iteration of the loop of loadGRPCRoute over the matches of a rule:
\* the configuration and the condition afterwards. A router has the
\* priority 0 of a Router whose Priority is not set.
loadGRPCMatch(cnf, condition, listener, hostnames, ri, routeRule, m, order) ==
    LET routeKey   == makeRouteKey(ri)
        rule       == buildGRPCMatchRule(hostnames, m)
        routerName == makeRouterName(rule, routeKey)
        mws        == loadGRPCMiddlewares(cnf.Middlewares, routerName, routeRule.Filters, order)
        errWrrName == routerName \o <<"-", "e", "r", "r", "-", "w", "r", "r">>
        svc        == loadGRPCService(cnf.Services, routeKey, routeRule)
        router     == [RuleSyntax  |-> "v3",
                       Rule        |-> rule,
                       EntryPoints |-> <<listener.EPName>>,
                       TLS         |-> listener.Protocol = "HTTPS",
                       Priority    |-> 0,
                       Middlewares |-> mws.names,
                       Service     |-> IF mws.err THEN errWrrName ELSE svc.name]
    IN  [conf |-> [Routers     |-> Put(cnf.Routers, routerName, router),
                   Middlewares |-> mws.middlewares,
                   Services    |-> IF mws.err
                                   THEN Put(cnf.Services, errWrrName, [Weighted |-> errWrr])
                                   ELSE svc.services],
         condition |-> IF ~mws.err /\ svc.condition # NoCondition
                       THEN svc.condition ELSE condition]

\* the inputs
RouteMatches ==
    {[Method |-> [Type |-> Nil, Service |-> StrFoobar, Method |-> StrFoobar], Headers |-> <<>>]}
ExtensionRefResults ==
    {[name |-> <<"m", "w">>, middleware |-> [Plugin |-> TRUE], err |-> FALSE],
     [name |-> <<"x", "p">>, middleware |-> NoMiddleware, err |-> FALSE],
     [name |-> <<>>, middleware |-> NoMiddleware, err |-> TRUE]}
NoExtensionRef == [none |-> TRUE]
GRPCRouteFilters ==
    {[Type |-> StrRequestHeaderModifier, ext |-> NoExtensionRef],
     [Type |-> StrRequestMirror, ext |-> NoExtensionRef]}
        \cup [Type : {StrExtensionRef}, ext : ExtensionRefResults]
RouteFilters ==
    {[Type |-> StrRequestHeaderModifier, ext |-> NoExtensionRef],
     [Type |-> StrRequestMirror, ext |-> NoExtensionRef]}
ResolvedBackendRef ==
    [Name |-> <<"o", "k">>, Group |-> Nil, Kind |-> Nil, Port |-> 80, Weight |-> <<>>,
     granted |-> TRUE, service |-> "found", slices |-> 1]
GRPCBackendRefs ==
    {ResolvedBackendRef,
     [ResolvedBackendRef EXCEPT !.Name = <<"n", "g">>, !.granted = FALSE],
     [ResolvedBackendRef EXCEPT !.Name = <<"t", "s">>, !.Kind = "TraefikService"],
     [ResolvedBackendRef EXCEPT !.Name = <<"n", "p">>, !.Port = 0],
     [ResolvedBackendRef EXCEPT !.Name = <<"n", "f">>, !.service = "missing"]}
GRPCRouteRules ==
    [Matches     : SeqsUpTo(RouteMatches, MaxMatches),
     Filters     : SeqsUpTo(RouteFilters, MaxRouteFilters),
     BackendRefs : SeqsUpTo(GRPCBackendRefs, MaxBackendRefs)]
Listeners == [EPName : {"web"}, Protocol : {"HTTPS"}]

\* loadGRPCRoute comes to the next rule of the route
RangeRules ==
    /\ grPc = "rules"
    /\ Len(grRules) < MaxRules
    /\ \E routeRule \in GRPCRouteRules :
        /\ grRules' = Append(grRules, routeRule)
        /\ grPc' = IF routeRule.Matches = <<>> THEN "rules" ELSE "matches"
    /\ grMi' = 0
    /\ UNCHANGED <<grListener, grHostnames, grConf, grCondition>>

\* loadGRPCRoute builds the router of the next match of the rule
RangeMatches ==
    /\ grPc = "matches"
    /\ LET ri        == Len(grRules) - 1
           routeRule == grRules[Len(grRules)]
           m         == routeRule.Matches[grMi + 1]
           routerName == makeRouterName(buildGRPCMatchRule(grHostnames, m), makeRouteKey(ri))
       IN  \E order \in FilterOrders(routerName, routeRule.Filters) :
             LET r == loadGRPCMatch(grConf, grCondition, grListener, grHostnames,
                                    ri, routeRule, m, order)
             IN  /\ grConf' = r.conf
                 /\ grCondition' = r.condition
                 /\ grMi' = grMi + 1
                 /\ grPc' = IF grMi + 1 = Len(routeRule.Matches) THEN "rules" ELSE "matches"
    /\ UNCHANGED <<grListener, grHostnames, grRules>>

\* the route has no further rule: loadGRPCRoute returns
ReturnGRPCRoute ==
    /\ grPc = "rules"
    /\ grPc' = "done"
    /\ UNCHANGED <<grListener, grHostnames, grRules, grMi, grConf, grCondition>>

EmptyHTTPConf == [Routers |-> <<>>, Middlewares |-> <<>>, Services |-> <<>>]

GrInit ==
    /\ grListener \in Listeners
    /\ grHostnames \in HostnameLists
    /\ grRules = <<>>
    /\ grMi = 0
    /\ grConf = EmptyHTTPConf
    /\ grCondition = ResolvedRefs("True", "ResolvedRefs")
    /\ grPc = "rules"

GrIdle ==
    /\ grListener = [EPName |-> "web", Protocol |-> "HTTPS"]
    /\ grHostnames = <<>>
    /\ grRules = <<>>
    /\ grMi = 0
    /\ grConf = EmptyHTTPConf
    /\ grCondition = ResolvedRefs("True", "ResolvedRefs")
    /\ grPc = "done"

\* one call of loadGRPCMiddlewares for a router
LoadGRPCMiddlewares ==
    /\ mwPc = "call"
    /\ \E order \in FilterOrders(<<"r">>, mwFilters) :
        mwRes' = loadGRPCMiddlewares(<<>>, <<"r">>, mwFilters, order)
    /\ mwPc' = "done"
    /\ UNCHANGED mwFilters

NoResult == [none |-> TRUE]

MwInit ==
    /\ mwFilters \in SeqsUpTo(GRPCRouteFilters, MaxFilters)
    /\ mwRes = NoResult
    /\ mwPc = "call"

MwIdle ==
    /\ mwFilters = <<>>
    /\ mwRes = NoResult
    /\ mwPc = "done"

---------------------------------------------------------------------------
(* connPool with the peers of its connections: Peek(1) of a readLoop       *)
(* returns an error once the peer has closed the connection, and not       *)
(* before.                                                                 *)

\* the peer closes connection id
PeerClose(id) ==
    /\ ~conns[id].closed
    /\ id \notin peerClosed
    /\ peerClosed' = peerClosed \cup {id}

\* conn.readLoop, where the error of Peek is the close of the peer
ReadLoopPeer(id) ==
    /\ ReadLoop(id)
    /\ conns'[id].broken => id \in peerClosed
    /\ conns'[id].readLoop = "wait" /\ conns[id].readLoop = "peek" => id \notin peerClosed
    /\ UNCHANGED peerClosed

PeerInit == peerClosed = {}

PeerIdle == peerClosed = {}

---------------------------------------------------------------------------
(* connPool: the field active of a conn, which the pool writes and never *)
(* reads, and the time of the last ReleaseConn of each connection        *)

\* conn.markAsActive
markAsActive(act, id) == [act EXCEPT ![id] = TRUE]

\* conn.markAsIdle, what it does to active: false when idleCh takes the
\* token, nothing in the default case
markAsIdleActive(act, co, id) ==
    IF co.idleCh = 0 THEN [act EXCEPT ![id] = FALSE] ELSE act

\* AcquireConn, line 127: the connection it returns is marked active
Acquired(c) ==
    /\ active' = IF clients'[c].pc = "hold"
                 THEN markAsActive(active, clients'[c].co)
                 ELSE active
    /\ UNCHANGED sinceRelease

MarkAcquireSelect(c) == AcquireSelect(c) /\ Acquired(c)

MarkAcquireWait(c) == AcquireWait(c) /\ Acquired(c)

\* ReleaseConn(co): markAsIdle, then releaseConn
MarkReleaseConn(c) ==
    /\ ReleaseConn(c)
    /\ active' = markAsIdleActive(active, conns[clients[c].co], clients[c].co)
    /\ sinceRelease' = [sinceRelease EXCEPT ![clients[c].co] = 0]

\* askForNewConn: the conn literal of lines 210-216 leaves active false
MarkAskForNewConn(c) ==
    /\ AskForNewConn(c)
    /\ IF Len(conns') > Len(conns)
       THEN /\ active' = Append(active, FALSE)
            /\ sinceRelease' = Append(sinceRelease, 0)
       ELSE UNCHANGED <<active, sinceRelease>>

\* one tick of the clock
MarkClock ==
    /\ PoolClock
    /\ sinceRelease' = [id \in DOMAIN sinceRelease |->
                           IF ~conns[id].closed /\ sinceRelease[id] <= idleConnTimeout
                           THEN sinceRelease[id] + 1
                           ELSE sinceRelease[id]]
    /\ UNCHANGED active

MarkInit ==
    /\ active = <<>>
    /\ sinceRelease = <<>>

MarkIdle ==
    /\ active = <<>>
    /\ sinceRelease = <<>>

---------------------------------------------------------------------------
(* loadGRPCBackendRef called on its own *)

\* the most endpoint slices the cluster lists for a service
MaxSlices == 1

\* the backendRefs: Group and Kind absent or given, Port absent (0) or
\* given, the answer of isReferenceGranted, and what GetService and
\* ListEndpointSlicesForService find
BackendRefs ==
    [Name : {<<"o", "k">>},
     Group : {Nil, "", groupCore, "traefik.io"},
     Kind : {Nil, "Service", "TraefikService"},
     Port : {0, 80},
     Weight : {<<>>},
     granted : BOOLEAN,
     service : {"missing", "noport", "found"},
     slices : 0..MaxSlices]

\* p.loadGRPCBackendRef(route, backendRef)
LoadGRPCBackendRef ==
    /\ bkPc = "call"
    /\ bkRes' = loadGRPCBackendRef(bkRef)
    /\ bkPc' = "done"
    /\ UNCHANGED bkRef

BkInit ==
    /\ bkRef \in BackendRefs
    /\ bkRes = NoResult
    /\ bkPc = "call"

BkIdle ==
    /\ bkRef = NoResult
    /\ bkRes = NoResult
    /\ bkPc = "done"

---------------------------------------------------------------------------
(* Specification of isAllowedReference called on its own *)

RefInit ==
    /\ refName \in StringsUpTo({"a", "b", At}, MaxNameLen)
    /\ refPvd \in StringsUpTo({"a", "b", At}, MaxPvdLen)
    /\ refRes = FALSE
    /\ refPc = "call"

IsAllowedReferenceCall ==
    /\ refPc = "call"
    /\ refRes' = isAllowedReference(refName, refPvd)
    /\ refPc' = "done"
    /\ UNCHANGED <<refName, refPvd>>

RefIdle ==
    /\ refName = <<>>
    /\ refPvd = <<>>
    /\ refRes = FALSE
    /\ refPc = "idle"

SanIdle ==
    /\ pvd = <<>>
    /\ configuration = NoConfiguration
    /\ conf = NoConfiguration
    /\ sanPc = "idle"

SpecRefInit == RefInit /\ SanIdle /\ MPIdle /\ MergeIdle /\ AMIdle /\ AggIdle /\ ThIdle /\ PoolIdle /\ BrIdle /\ CmpIdle /\ StIdle /\ GmIdle /\ GrIdle /\ MwIdle /\ PeerIdle /\ MarkIdle /\ BkIdle
RefCall == IsAllowedReferenceCall /\ UNCHANGED <<sanVars, mpVars, mergeVars, amVars, aggVars, thVars, poolVars, brVars, cmpVars, stVars, gmVars, grVars, mwVars, peerVars, markVars, bkVars>>
SpecRefNext == RefCall
SpecRef == SpecRefInit /\ [][SpecRefNext]_vars

SpecSanInit == SanInit /\ RefIdle /\ MPIdle /\ MergeIdle /\ AMIdle /\ AggIdle /\ ThIdle /\ PoolIdle /\ BrIdle /\ CmpIdle /\ StIdle /\ GmIdle /\ GrIdle /\ MwIdle /\ PeerIdle /\ MarkIdle /\ BkIdle
SanitizeReferences == Sanitize /\ UNCHANGED <<refVars, mpVars, mergeVars, amVars, aggVars, thVars, poolVars, brVars, cmpVars, stVars, gmVars, grVars, mwVars, peerVars, markVars, bkVars>>
SpecSanNext == SanitizeReferences
SpecSan == SpecSanInit /\ [][SpecSanNext]_vars

SpecMPInit == MPInit /\ RefIdle /\ SanIdle /\ MergeIdle /\ AMIdle /\ AggIdle /\ ThIdle /\ PoolIdle /\ BrIdle /\ CmpIdle /\ StIdle /\ GmIdle /\ GrIdle /\ MwIdle /\ PeerIdle /\ MarkIdle /\ BkIdle
MPProvide == Provide /\ UNCHANGED <<refVars, sanVars, mergeVars, amVars, aggVars, thVars, poolVars, brVars, cmpVars, stVars, gmVars, grVars, mwVars, peerVars, markVars, bkVars>>
MPProviderEmit == ProviderEmit /\ UNCHANGED <<refVars, sanVars, mergeVars, amVars, aggVars, thVars, poolVars, brVars, cmpVars, stVars, gmVars, grVars, mwVars, peerVars, markVars, bkVars>>
MPForwarder == Forwarder /\ UNCHANGED <<refVars, sanVars, mergeVars, amVars, aggVars, thVars, poolVars, brVars, cmpVars, stVars, gmVars, grVars, mwVars, peerVars, markVars, bkVars>>
MPCancel == Cancel /\ UNCHANGED <<refVars, sanVars, mergeVars, amVars, aggVars, thVars, poolVars, brVars, cmpVars, stVars, gmVars, grVars, mwVars, peerVars, markVars, bkVars>>
MPConsumerReceive == ConsumerReceive /\ UNCHANGED <<refVars, sanVars, mergeVars, amVars, aggVars, thVars, poolVars, brVars, cmpVars, stVars, gmVars, grVars, mwVars, peerVars, markVars, bkVars>>
SpecMPNext ==
    \/ MPProvide
    \/ MPProviderEmit
    \/ MPForwarder
    \/ MPCancel
    \/ MPConsumerReceive
SpecMP == SpecMPInit /\ [][SpecMPNext]_vars

SpecMergeInit == MergeInit /\ RefIdle /\ SanIdle /\ MPIdle /\ AMIdle /\ AggIdle /\ ThIdle /\ PoolIdle /\ BrIdle /\ CmpIdle /\ StIdle /\ GmIdle /\ GrIdle /\ MwIdle /\ PeerIdle /\ MarkIdle /\ BkIdle
MergeConfiguration == Merge /\ UNCHANGED <<refVars, sanVars, mpVars, amVars, aggVars, thVars, poolVars, brVars, cmpVars, stVars, gmVars, grVars, mwVars, peerVars, markVars, bkVars>>
SpecMergeNext == MergeConfiguration
SpecMerge == SpecMergeInit /\ [][SpecMergeNext]_vars

SpecAMInit == AMInit /\ RefIdle /\ SanIdle /\ MPIdle /\ MergeIdle /\ AggIdle /\ ThIdle /\ PoolIdle /\ BrIdle /\ CmpIdle /\ StIdle /\ GmIdle /\ GrIdle /\ MwIdle /\ PeerIdle /\ MarkIdle /\ BkIdle
AMCall == ApplyModelCall /\ UNCHANGED <<refVars, sanVars, mpVars, mergeVars, aggVars, thVars, poolVars, brVars, cmpVars, stVars, gmVars, grVars, mwVars, peerVars, markVars, bkVars>>
AMRange == ApplyModelRange /\ UNCHANGED <<refVars, sanVars, mpVars, mergeVars, aggVars, thVars, poolVars, brVars, cmpVars, stVars, gmVars, grVars, mwVars, peerVars, markVars, bkVars>>
AMReturn == ApplyModelReturn /\ UNCHANGED <<refVars, sanVars, mpVars, mergeVars, aggVars, thVars, poolVars, brVars, cmpVars, stVars, gmVars, grVars, mwVars, peerVars, markVars, bkVars>>
SpecAMNext ==
    \/ AMCall
    \/ AMRange
    \/ AMReturn
SpecAM == SpecAMInit /\ [][SpecAMNext]_vars


SpecAggInit == AggInit /\ RefIdle /\ SanIdle /\ MPIdle /\ MergeIdle /\ AMIdle /\ ThIdle /\ PoolIdle /\ BrIdle /\ CmpIdle /\ StIdle /\ GmIdle /\ GrIdle /\ MwIdle /\ PeerIdle /\ MarkIdle /\ BkIdle
AggAdd == QuietAddProvider /\ UNCHANGED <<refVars, sanVars, mpVars, mergeVars, amVars, thVars, poolVars, brVars, cmpVars, stVars, gmVars, grVars, mwVars, peerVars, markVars, bkVars>>
AggProvide == AggregatorProvide /\ UNCHANGED <<refVars, sanVars, mpVars, mergeVars, amVars, thVars, poolVars, brVars, cmpVars, stVars, gmVars, grVars, mwVars, peerVars, markVars, bkVars>>
AggRange == AggregatorRange /\ UNCHANGED <<refVars, sanVars, mpVars, mergeVars, amVars, thVars, poolVars, brVars, cmpVars, stVars, gmVars, grVars, mwVars, peerVars, markVars, bkVars>>
AggGoroutine == AggregatorGoroutine /\ UNCHANGED <<refVars, sanVars, mpVars, mergeVars, amVars, thVars, poolVars, brVars, cmpVars, stVars, gmVars, grVars, mwVars, peerVars, markVars, bkVars>>
AggInternal == AggregatorInternal /\ UNCHANGED <<refVars, sanVars, mpVars, mergeVars, amVars, thVars, poolVars, brVars, cmpVars, stVars, gmVars, grVars, mwVars, peerVars, markVars, bkVars>>
SpecAggNext ==
    \/ AggAdd
    \/ AggProvide
    \/ AggRange
    \/ AggGoroutine
    \/ AggInternal
SpecAgg == SpecAggInit /\ [][SpecAggNext]_vars

SpecThInit == ThInit /\ RefIdle /\ SanIdle /\ MPIdle /\ MergeIdle /\ AMIdle /\ AggIdle /\ PoolIdle /\ BrIdle /\ CmpIdle /\ StIdle /\ GmIdle /\ GrIdle /\ MwIdle /\ PeerIdle /\ MarkIdle /\ BkIdle
ThProvide == ThrottledProvide /\ UNCHANGED <<refVars, sanVars, mpVars, mergeVars, amVars, aggVars, poolVars, brVars, cmpVars, stVars, gmVars, grVars, mwVars, peerVars, markVars, bkVars>>
ThEmit == ThrottledEmit /\ UNCHANGED <<refVars, sanVars, mpVars, mergeVars, amVars, aggVars, poolVars, brVars, cmpVars, stVars, gmVars, grVars, mwVars, peerVars, markVars, bkVars>>
ThSelect == ThrottleSelect /\ UNCHANGED <<refVars, sanVars, mpVars, mergeVars, amVars, aggVars, poolVars, brVars, cmpVars, stVars, gmVars, grVars, mwVars, peerVars, markVars, bkVars>>
ThSend == ThrottleSend /\ UNCHANGED <<refVars, sanVars, mpVars, mergeVars, amVars, aggVars, poolVars, brVars, cmpVars, stVars, gmVars, grVars, mwVars, peerVars, markVars, bkVars>>
ThWake == ThrottleWake /\ UNCHANGED <<refVars, sanVars, mpVars, mergeVars, amVars, aggVars, poolVars, brVars, cmpVars, stVars, gmVars, grVars, mwVars, peerVars, markVars, bkVars>>
ThTick == ThrottleTick /\ UNCHANGED <<refVars, sanVars, mpVars, mergeVars, amVars, aggVars, poolVars, brVars, cmpVars, stVars, gmVars, grVars, mwVars, peerVars, markVars, bkVars>>
ThCancel == ThrottleCancel /\ UNCHANGED <<refVars, sanVars, mpVars, mergeVars, amVars, aggVars, poolVars, brVars, cmpVars, stVars, gmVars, grVars, mwVars, peerVars, markVars, bkVars>>
ThConsume == ThrottleConsume /\ UNCHANGED <<refVars, sanVars, mpVars, mergeVars, amVars, aggVars, poolVars, brVars, cmpVars, stVars, gmVars, grVars, mwVars, peerVars, markVars, bkVars>>
SpecThNext ==
    \/ ThProvide
    \/ ThEmit
    \/ ThSelect
    \/ ThSend
    \/ ThWake
    \/ ThTick
    \/ ThCancel
    \/ ThConsume
SpecTh == SpecThInit /\ [][SpecThNext]_vars

\* the goroutine, the consumer and the clock keep running
SpecThLive ==
    /\ SpecTh
    /\ WF_vars(ThSelect)
    /\ WF_vars(ThSend)
    /\ WF_vars(ThWake)
    /\ WF_vars(ThTick)
    /\ WF_vars(ThConsume)

\* The forwarding goroutine goes on whenever it can, takes the case of
\* ctx.Done() if that case stays possible, and time goes by. Nothing makes
\* the consumer of configurationChan receive.
SpecThStopped ==
    /\ SpecTh
    /\ WF_vars(ThSelect)
    /\ SF_vars(ThSelect /\ thFwPc' = "exit")
    /\ WF_vars(ThSend)
    /\ WF_vars(ThWake)
    /\ WF_vars(ThTick)

SpecPoolInit == PoolInit /\ RefIdle /\ SanIdle /\ MPIdle /\ MergeIdle /\ AMIdle /\ AggIdle /\ ThIdle /\ BrIdle /\ CmpIdle /\ StIdle /\ GmIdle /\ GrIdle /\ MwIdle /\ PeerIdle /\ MarkIdle /\ BkIdle
PoolAcquireSelect == (\E c \in Clients : AcquireSelect(c)) /\ UNCHANGED <<refVars, sanVars, mpVars, mergeVars, amVars, aggVars, thVars, brVars, cmpVars, stVars, gmVars, grVars, mwVars, peerVars, markVars, bkVars>>
PoolAcquireWait == (\E c \in Clients : AcquireWait(c)) /\ UNCHANGED <<refVars, sanVars, mpVars, mergeVars, amVars, aggVars, thVars, brVars, cmpVars, stVars, gmVars, grVars, mwVars, peerVars, markVars, bkVars>>
PoolReleaseConn == (\E c \in Clients : ReleaseConn(c)) /\ UNCHANGED <<refVars, sanVars, mpVars, mergeVars, amVars, aggVars, thVars, brVars, cmpVars, stVars, gmVars, grVars, mwVars, peerVars, markVars, bkVars>>
PoolAskForNewConn == (\E c \in Clients : AskForNewConn(c)) /\ UNCHANGED <<refVars, sanVars, mpVars, mergeVars, amVars, aggVars, thVars, brVars, cmpVars, stVars, gmVars, grVars, mwVars, peerVars, markVars, bkVars>>
PoolReadLoop == (\E id \in DOMAIN conns : ReadLoop(id)) /\ UNCHANGED <<refVars, sanVars, mpVars, mergeVars, amVars, aggVars, thVars, brVars, cmpVars, stVars, gmVars, grVars, mwVars, peerVars, markVars, bkVars>>
PoolJanitorTick == JanitorTick /\ UNCHANGED <<refVars, sanVars, mpVars, mergeVars, amVars, aggVars, thVars, brVars, cmpVars, stVars, gmVars, grVars, mwVars, peerVars, markVars, bkVars>>
PoolCleanSelect == CleanSelect /\ UNCHANGED <<refVars, sanVars, mpVars, mergeVars, amVars, aggVars, thVars, brVars, cmpVars, stVars, gmVars, grVars, mwVars, peerVars, markVars, bkVars>>
PoolCleanRelease == CleanRelease /\ UNCHANGED <<refVars, sanVars, mpVars, mergeVars, amVars, aggVars, thVars, brVars, cmpVars, stVars, gmVars, grVars, mwVars, peerVars, markVars, bkVars>>
PoolTick == PoolClock /\ UNCHANGED <<refVars, sanVars, mpVars, mergeVars, amVars, aggVars, thVars, brVars, cmpVars, stVars, gmVars, grVars, mwVars, peerVars, markVars, bkVars>>
SpecPoolNext ==
    \/ PoolAcquireSelect
    \/ PoolAcquireWait
    \/ PoolReleaseConn
    \/ PoolAskForNewConn
    \/ PoolReadLoop
    \/ PoolJanitorTick
    \/ PoolCleanSelect
    \/ PoolCleanRelease
    \/ PoolTick
SpecPool == SpecPoolInit /\ [][SpecPoolNext]_vars

\* Every goroutine that can go on does: a dial returns, the loop of
\* AcquireConn goes round again, a receive of acquireConn that stays or comes
\* back possible is made, readLoop and cleanIdleConns run. Nothing makes a
\* caller release a connection, call AcquireConn or the ticker fire.
SpecPoolLive ==
    /\ SpecPool
    /\ \A c \in Clients : WF_vars(AskForNewConn(c) /\ PoolAskForNewConn)
    /\ \A c \in Clients : SF_vars(AcquireWait(c) /\ PoolAcquireWait)
    /\ \A c \in Clients : WF_vars(clients[c].pc = "retry" /\ AcquireSelect(c) /\ PoolAcquireSelect)
    /\ WF_vars(PoolReadLoop)
    /\ WF_vars(PoolCleanSelect)
    /\ WF_vars(PoolCleanRelease)

---------------------------------------------------------------------------
(* Specification of the brotliResponseWriter serving one request *)
SpecBrInit == BrInit /\ RefIdle /\ SanIdle /\ MPIdle /\ MergeIdle /\ AMIdle /\ AggIdle /\ ThIdle /\ PoolIdle /\ CmpIdle /\ StIdle /\ GmIdle /\ GrIdle /\ MwIdle /\ PeerIdle /\ MarkIdle /\ BkIdle
BrWriteHeader == (\E code \in StatusCodes : WriteHeader(code)) /\ UNCHANGED <<refVars, sanVars, mpVars, mergeVars, amVars, aggVars, thVars, poolVars, cmpVars, stVars, gmVars, grVars, mwVars, peerVars, markVars, bkVars>>
BrWrite == (\E len \in 0..MaxChunk : Write(len)) /\ UNCHANGED <<refVars, sanVars, mpVars, mergeVars, amVars, aggVars, thVars, poolVars, cmpVars, stVars, gmVars, grVars, mwVars, peerVars, markVars, bkVars>>
BrFlush == Flush /\ UNCHANGED <<refVars, sanVars, mpVars, mergeVars, amVars, aggVars, thVars, poolVars, cmpVars, stVars, gmVars, grVars, mwVars, peerVars, markVars, bkVars>>
BrClose == CloseWriter /\ UNCHANGED <<refVars, sanVars, mpVars, mergeVars, amVars, aggVars, thVars, poolVars, cmpVars, stVars, gmVars, grVars, mwVars, peerVars, markVars, bkVars>>
SpecBrNext ==
    \/ BrWriteHeader
    \/ BrWrite
    \/ BrFlush
    \/ BrClose
SpecBr == SpecBrInit /\ [][SpecBrNext]_vars

---------------------------------------------------------------------------
(* Specification of the compress middleware serving one request, with the *)
(* brotliResponseWriter it makes                                          *)
SpecCompressInit == CmpInit /\ RefIdle /\ SanIdle /\ MPIdle /\ MergeIdle /\ AMIdle /\ AggIdle /\ ThIdle /\ PoolIdle /\ BrIdle /\ StIdle /\ GmIdle /\ GrIdle /\ MwIdle /\ PeerIdle /\ MarkIdle /\ BkIdle
CmpServeHTTP == ServeHTTP /\ UNCHANGED <<refVars, sanVars, mpVars, mergeVars, amVars, aggVars, thVars, poolVars, stVars, gmVars, grVars, mwVars, peerVars, markVars, bkVars>>
SpecCompressNext ==
    \/ CmpServeHTTP
    \/ BrWriteHeader
    \/ BrWrite
    \/ BrFlush
    \/ BrClose
SpecCompress == SpecCompressInit /\ [][SpecCompressNext]_vars

---------------------------------------------------------------------------
(* Specification of one status update of the clientWrapper *)
SpecStatusInit == StInit /\ RefIdle /\ SanIdle /\ MPIdle /\ MergeIdle /\ AMIdle /\ AggIdle /\ ThIdle /\ PoolIdle /\ BrIdle /\ CmpIdle /\ GmIdle /\ GrIdle /\ MwIdle /\ PeerIdle /\ MarkIdle /\ BkIdle
StUpdateStatusCall == UpdateStatusCall /\ UNCHANGED <<refVars, sanVars, mpVars, mergeVars, amVars, aggVars, thVars, poolVars, brVars, cmpVars, gmVars, grVars, mwVars, peerVars, markVars, bkVars>>
StAttempt == Attempt /\ UNCHANGED <<refVars, sanVars, mpVars, mergeVars, amVars, aggVars, thVars, poolVars, brVars, cmpVars, gmVars, grVars, mwVars, peerVars, markVars, bkVars>>
StInformerSync == InformerSync /\ UNCHANGED <<refVars, sanVars, mpVars, mergeVars, amVars, aggVars, thVars, poolVars, brVars, cmpVars, gmVars, grVars, mwVars, peerVars, markVars, bkVars>>
SpecStatusNext ==
    \/ StUpdateStatusCall
    \/ StAttempt
    \/ StInformerSync
SpecStatus == SpecStatusInit /\ [][SpecStatusNext]_vars
SpecStatusLive == SpecStatus /\ WF_vars(StUpdateStatusCall) /\ WF_vars(StAttempt)

---------------------------------------------------------------------------
(* Specification of buildGRPCMatchRule called on its own *)
SpecGRPCRuleInit == GmInit /\ RefIdle /\ SanIdle /\ MPIdle /\ MergeIdle /\ AMIdle /\ AggIdle /\ ThIdle /\ PoolIdle /\ BrIdle /\ CmpIdle /\ StIdle /\ GrIdle /\ MwIdle /\ PeerIdle /\ MarkIdle /\ BkIdle
GmBuildGRPCMatchRule == BuildGRPCMatchRule /\ UNCHANGED <<refVars, sanVars, mpVars, mergeVars, amVars, aggVars, thVars, poolVars, brVars, cmpVars, stVars, grVars, mwVars, peerVars, markVars, bkVars>>
SpecGRPCRuleNext ==
    \/ GmBuildGRPCMatchRule
SpecGRPCRule == SpecGRPCRuleInit /\ [][SpecGRPCRuleNext]_vars

---------------------------------------------------------------------------
(* Specification of one call of loadGRPCRoute *)
SpecGRPCRouteInit == GrInit /\ RefIdle /\ SanIdle /\ MPIdle /\ MergeIdle /\ AMIdle /\ AggIdle /\ ThIdle /\ PoolIdle /\ BrIdle /\ CmpIdle /\ StIdle /\ GmIdle /\ MwIdle /\ PeerIdle /\ MarkIdle /\ BkIdle
GrRangeRules == RangeRules /\ UNCHANGED <<refVars, sanVars, mpVars, mergeVars, amVars, aggVars, thVars, poolVars, brVars, cmpVars, stVars, gmVars, mwVars, peerVars, markVars, bkVars>>
GrRangeMatches == RangeMatches /\ UNCHANGED <<refVars, sanVars, mpVars, mergeVars, amVars, aggVars, thVars, poolVars, brVars, cmpVars, stVars, gmVars, mwVars, peerVars, markVars, bkVars>>
GrReturnGRPCRoute == ReturnGRPCRoute /\ UNCHANGED <<refVars, sanVars, mpVars, mergeVars, amVars, aggVars, thVars, poolVars, brVars, cmpVars, stVars, gmVars, mwVars, peerVars, markVars, bkVars>>
SpecGRPCRouteNext ==
    \/ GrRangeRules
    \/ GrRangeMatches
    \/ GrReturnGRPCRoute
SpecGRPCRoute == SpecGRPCRouteInit /\ [][SpecGRPCRouteNext]_vars

---------------------------------------------------------------------------
(* Specification of loadGRPCMiddlewares called on its own *)
SpecGRPCMiddlewaresInit == MwInit /\ RefIdle /\ SanIdle /\ MPIdle /\ MergeIdle /\ AMIdle /\ AggIdle /\ ThIdle /\ PoolIdle /\ BrIdle /\ CmpIdle /\ StIdle /\ GmIdle /\ GrIdle /\ PeerIdle /\ MarkIdle /\ BkIdle
MwLoadGRPCMiddlewares == LoadGRPCMiddlewares /\ UNCHANGED <<refVars, sanVars, mpVars, mergeVars, amVars, aggVars, thVars, poolVars, brVars, cmpVars, stVars, gmVars, grVars, peerVars, markVars, bkVars>>
SpecGRPCMiddlewaresNext ==
    \/ MwLoadGRPCMiddlewares
SpecGRPCMiddlewares == SpecGRPCMiddlewaresInit /\ [][SpecGRPCMiddlewaresNext]_vars

---------------------------------------------------------------------------
(* Specification of the connPool and the peers of its connections *)
SpecPoolPeerInit == PoolInit /\ PeerInit /\ RefIdle /\ SanIdle /\ MPIdle /\ MergeIdle /\ AMIdle /\ AggIdle /\ ThIdle /\ BrIdle /\ CmpIdle /\ StIdle /\ GmIdle /\ GrIdle /\ MwIdle /\ MarkIdle /\ BkIdle
PeerReadLoop == (\E id \in DOMAIN conns : ReadLoopPeer(id)) /\ UNCHANGED <<refVars, sanVars, mpVars, mergeVars, amVars, aggVars, thVars, brVars, cmpVars, stVars, gmVars, grVars, mwVars, markVars, bkVars>>
PeerPeerClose == (\E id \in DOMAIN conns : PeerClose(id)) /\ UNCHANGED <<refVars, sanVars, mpVars, mergeVars, amVars, aggVars, thVars, brVars, cmpVars, stVars, gmVars, grVars, mwVars, poolVars, markVars, bkVars>>
SpecPoolPeerNext ==
    \/ PoolAcquireSelect
    \/ PoolAcquireWait
    \/ PoolReleaseConn
    \/ PoolAskForNewConn
    \/ PeerReadLoop
    \/ PoolJanitorTick
    \/ PoolCleanSelect
    \/ PoolCleanRelease
    \/ PoolTick
    \/ PeerPeerClose
SpecPoolPeer == SpecPoolPeerInit /\ [][SpecPoolPeerNext]_vars

\* every readLoop that can go on does, and so do the goroutines of the pool
SpecPoolPeerLive ==
    /\ SpecPoolPeer
    /\ \A id \in 1..MaxDials : WF_vars(id \in DOMAIN conns /\ ReadLoopPeer(id) /\ PeerReadLoop)
    /\ \A c \in Clients : WF_vars(AskForNewConn(c) /\ PoolAskForNewConn)
    /\ WF_vars(PoolCleanSelect)
    /\ WF_vars(PoolCleanRelease)

---------------------------------------------------------------------------
(* Specification of the connPool with the field active of its connections *)
SpecPoolMarkInit == PoolInit /\ MarkInit /\ RefIdle /\ SanIdle /\ MPIdle /\ MergeIdle /\ AMIdle /\ AggIdle /\ ThIdle /\ BrIdle /\ CmpIdle /\ StIdle /\ GmIdle /\ GrIdle /\ MwIdle /\ PeerIdle /\ BkIdle
MkAcquireSelect == (\E c \in Clients : MarkAcquireSelect(c)) /\ UNCHANGED <<refVars, sanVars, mpVars, mergeVars, amVars, aggVars, thVars, brVars, cmpVars, stVars, gmVars, grVars, mwVars, peerVars, bkVars>>
MkAcquireWait == (\E c \in Clients : MarkAcquireWait(c)) /\ UNCHANGED <<refVars, sanVars, mpVars, mergeVars, amVars, aggVars, thVars, brVars, cmpVars, stVars, gmVars, grVars, mwVars, peerVars, bkVars>>
MkReleaseConn == (\E c \in Clients : MarkReleaseConn(c)) /\ UNCHANGED <<refVars, sanVars, mpVars, mergeVars, amVars, aggVars, thVars, brVars, cmpVars, stVars, gmVars, grVars, mwVars, peerVars, bkVars>>
MkAskForNewConn == (\E c \in Clients : MarkAskForNewConn(c)) /\ UNCHANGED <<refVars, sanVars, mpVars, mergeVars, amVars, aggVars, thVars, brVars, cmpVars, stVars, gmVars, grVars, mwVars, peerVars, bkVars>>
MkTick == MarkClock /\ UNCHANGED <<refVars, sanVars, mpVars, mergeVars, amVars, aggVars, thVars, brVars, cmpVars, stVars, gmVars, grVars, mwVars, peerVars, bkVars>>
SpecPoolMarkNext ==
    \/ MkAcquireSelect
    \/ MkAcquireWait
    \/ MkReleaseConn
    \/ MkAskForNewConn
    \/ PoolReadLoop
    \/ PoolJanitorTick
    \/ PoolCleanSelect
    \/ PoolCleanRelease
    \/ MkTick
SpecPoolMark == SpecPoolMarkInit /\ [][SpecPoolMarkNext]_vars

---------------------------------------------------------------------------
(* Specification of loadGRPCBackendRef called on its own *)
SpecGRPCBackendRefInit == BkInit /\ RefIdle /\ SanIdle /\ MPIdle /\ MergeIdle /\ AMIdle /\ AggIdle /\ ThIdle /\ PoolIdle /\ BrIdle /\ CmpIdle /\ StIdle /\ GmIdle /\ GrIdle /\ MwIdle /\ PeerIdle /\ MarkIdle
BkLoadGRPCBackendRef == LoadGRPCBackendRef /\ UNCHANGED <<refVars, sanVars, mpVars, mergeVars, amVars, aggVars, thVars, poolVars, brVars, cmpVars, stVars, gmVars, grVars, mwVars, peerVars, markVars>>
SpecGRPCBackendRefNext ==
    \/ BkLoadGRPCBackendRef
SpecGRPCBackendRef == SpecGRPCBackendRefInit /\ [][SpecGRPCBackendRefNext]_vars

---------------------------------------------------------------------------
(* C4 *)

\* the name has no '@'
NoAt(name) == \A i \in 1..Len(name) : name[i] # At

\* the source part of a qualified name: what stands after its first '@', up
\* to the next '@' or the end of the name
SourcePart(name) ==
    LET first == CHOOSE i \in 1..Len(name) :
                     name[i] = At /\ \A j \in 1..(i - 1) : name[j] # At
        ends  == {k \in (first + 1)..(Len(name) + 1) :
                     /\ k = Len(name) + 1 \/ name[k] = At
                     /\ \A j \in (first + 1)..(k - 1) : name[j] # At}
        stop  == CHOOSE k \in ends : TRUE
    IN  [i \in 1..(stop - first - 1) |-> name[first + i]]

\* x occurs inside y: y = u \o x \o v for some u, v
IsSubstring(x, y) ==
    \E u \in 0..Len(y) : \E v \in 0..Len(y) :
        /\ u + Len(x) + v = Len(y)
        /\ \A i \in 1..Len(x) : y[u + i] = x[i]

\* C4: isAllowedReference(name, S) is true exactly when the name has no '@',
\* or its source part equals S, or its source part does not contain S as a
\* substring; it is false exactly when the source part contains S as a
\* proper substring.
C4_IsAllowedReferenceRule ==
    refPc = "done" =>
        /\ refRes = TRUE <=>
              \/ NoAt(refName)
              \/ SourcePart(refName) = refPvd
              \/ ~IsSubstring(refPvd, SourcePart(refName))
        /\ refRes = FALSE <=>
              /\ ~NoAt(refName)
              /\ IsSubstring(refPvd, SourcePart(refName))
              /\ SourcePart(refName) # refPvd

\* a qualified name whose source part holds S as a proper substring was refused
C4_Witness ==
    /\ refPc = "done"
    /\ refName = <<"a", At, "a", "b">>
    /\ refPvd = <<"a">>
    /\ refRes = FALSE

---------------------------------------------------------------------------
(* C1, C2, C3: what sanitizeReferences keeps and drops *)

\* the allowed-reference rule for source s: no '@', or qualified with
\* exactly s, or qualified with an X that does not hold s as a substring
AllowedFor(ref, s) ==
    \/ NoAt(ref)
    \/ SourcePart(ref) = s
    \/ ~IsSubstring(s, SourcePart(ref))

Range(seq) == {seq[i] : i \in DOMAIN seq}

\* every reference a service, a middleware, a router holds
ServiceRefs(service) ==
    (IF service.LoadBalancer THEN {service.ServersTransport} ELSE {})
    \cup (IF service.Failover
          THEN {service.FailoverService, service.FailoverFallback} ELSE {})
    \cup (IF service.Weighted THEN Range(service.WeightedServices) ELSE {})
    \cup (IF service.Mirroring
          THEN {service.MirroringService} \cup Range(service.Mirrors) ELSE {})

MiddlewareRefs(middleware) ==
    (IF middleware.Chain THEN Range(middleware.ChainMiddlewares) ELSE {})
    \cup (IF middleware.Errors THEN {middleware.ErrorsService} ELSE {})

RouterRefs(router) ==
    {router.Service} \cup Range(router.Middlewares)
    \cup (IF router.TLS THEN {router.TLSOptions} ELSE {})

\* the references of an item of one kind
RefsOf(kind, item) ==
    CASE kind = "router"     -> RouterRefs(item)
      [] kind = "middleware" -> MiddlewareRefs(item)
      [] kind = "service"    -> ServiceRefs(item)

AllRefsAllowed(map, kind, s) ==
    \A k \in DOMAIN map : \A ref \in RefsOf(kind, map[k]) : AllowedFor(ref, s)

\* C1: after sanitizeReferences(S, M) every reference of every surviving
\* router, middleware and service (also of one whose own key is qualified
\* with another source) has no '@', or is qualified with exactly S, or is
\* qualified with an X that does not contain S as a substring.
C1_SurvivorsHoldOnlyAllowedReferences ==
    sanPc = "done" =>
        /\ AllRefsAllowed(conf.HTTP.Routers, "router", pvd)
        /\ AllRefsAllowed(conf.HTTP.Middlewares, "middleware", pvd)
        /\ AllRefsAllowed(conf.HTTP.Services, "service", pvd)
        /\ AllRefsAllowed(conf.TCP.Routers, "router", pvd)
        /\ AllRefsAllowed(conf.TCP.Services, "service", pvd)
        /\ AllRefsAllowed(conf.UDP.Routers, "router", pvd)
        /\ AllRefsAllowed(conf.UDP.Services, "service", pvd)

\* the key of this message's map that a reference of source s names: the
\* reference itself when bare, its local part when qualified with s
LocalKey(ref, s) ==
    IF NoAt(ref) THEN ref
    ELSE [i \in 1..(Index(ref, At) - 1) |-> ref[i]]

IsLocal(ref, s) == NoAt(ref) \/ SourcePart(ref) = s

\* the references reached from `refs' through the items of `map'
RECURSIVE Reachable(_, _, _, _, _)
Reachable(map, kind, s, refs, seen) ==
    LET new == refs \ seen
    IN  IF new = {} THEN seen
        ELSE LET next == UNION {RefsOf(kind, map[LocalKey(r, s)]) :
                              r \in {x \in new : IsLocal(x, s)
                                                 /\ LocalKey(x, s) \in DOMAIN map}}
             IN  Reachable(map, kind, s, next, seen \cup new)

\* an item whose name and transitive references are all allowed; read in
\* the code's favour: every reference to the own source names an item of
\* the message, and the item is not part of a cycle
Blameless(map, kind, s, key) ==
    LET reached == Reachable(map, kind, s, RefsOf(kind, map[key]), {})
    IN  /\ AllowedFor(key, s)
        /\ \A ref \in reached : AllowedFor(ref, s)
        /\ \A ref \in reached :
              IsLocal(ref, s) /\ ref # <<>> => LocalKey(ref, s) \in DOMAIN map
        /\ \A ref \in reached : ~(IsLocal(ref, s) /\ LocalKey(ref, s) = key)

Kept(in, out, key) == key \in DOMAIN out /\ out[key] = in[key]

BlamelessKept(in, out, kind, s) ==
    \A key \in DOMAIN in : Blameless(in, kind, s, key) => Kept(in, out, key)

\* the reference names an item of `in' that `out' no longer holds, bare or
\* qualified with the own source
NamesDropped(ref, in, out, s) ==
    \E key \in DOMAIN in \ DOMAIN out :
        \/ ref = key
        \/ NoAt(key) /\ ref = key \o <<At>> \o s

\* C2: sanitizeReferences drops only violating items: every HTTP middleware
\* and every HTTP, TCP and UDP service whose name and transitive references
\* are all allowed for S, and every router whose service, middlewares and
\* TLS options are allowed and were not dropped, is in the output with its
\* definition unchanged.
C2_OnlyViolatingItemsAreDropped ==
    sanPc = "done" =>
        /\ BlamelessKept(configuration.HTTP.Middlewares, conf.HTTP.Middlewares,
                         "middleware", pvd)
        /\ BlamelessKept(configuration.HTTP.Services, conf.HTTP.Services,
                         "service", pvd)
        /\ BlamelessKept(configuration.TCP.Services, conf.TCP.Services,
                         "service", pvd)
        /\ BlamelessKept(configuration.UDP.Services, conf.UDP.Services,
                         "service", pvd)
        /\ \A k \in DOMAIN configuration.HTTP.Routers :
              LET r == configuration.HTTP.Routers[k]
              IN  (/\ \A ref \in RouterRefs(r) : AllowedFor(ref, pvd)
                   /\ ~NamesDropped(r.Service, configuration.HTTP.Services,
                                    conf.HTTP.Services, pvd)
                   /\ \A i \in DOMAIN r.Middlewares :
                         ~NamesDropped(r.Middlewares[i],
                                       configuration.HTTP.Middlewares,
                                       conf.HTTP.Middlewares, pvd))
                  => Kept(configuration.HTTP.Routers, conf.HTTP.Routers, k)
        /\ \A k \in DOMAIN configuration.TCP.Routers :
              LET r == configuration.TCP.Routers[k]
              IN  (/\ \A ref \in RouterRefs(r) : AllowedFor(ref, pvd)
                   /\ ~NamesDropped(r.Service, configuration.TCP.Services,
                                    conf.TCP.Services, pvd))
                  => Kept(configuration.TCP.Routers, conf.TCP.Routers, k)
        /\ \A k \in DOMAIN configuration.UDP.Routers :
              LET r == configuration.UDP.Routers[k]
              IN  (/\ \A ref \in RouterRefs(r) : AllowedFor(ref, pvd)
                   /\ ~NamesDropped(r.Service, configuration.UDP.Services,
                                    conf.UDP.Services, pvd))
                  => Kept(configuration.UDP.Routers, conf.UDP.Routers, k)

\* C3: no router survives sanitizeReferences when the service or a
\* middleware it references was dropped from the same message, named bare
\* ('svc') or qualified with the own source ('svc@S'); for HTTP, TCP and UDP.
C3_NoRouterOutlivesItsDependencies ==
    sanPc = "done" =>
        /\ \A k \in DOMAIN conf.HTTP.Routers :
              /\ ~NamesDropped(conf.HTTP.Routers[k].Service,
                               configuration.HTTP.Services, conf.HTTP.Services, pvd)
              /\ \A i \in DOMAIN conf.HTTP.Routers[k].Middlewares :
                    ~NamesDropped(conf.HTTP.Routers[k].Middlewares[i],
                                  configuration.HTTP.Middlewares,
                                  conf.HTTP.Middlewares, pvd)
        /\ \A k \in DOMAIN conf.TCP.Routers :
              ~NamesDropped(conf.TCP.Routers[k].Service,
                            configuration.TCP.Services, conf.TCP.Services, pvd)
        /\ \A k \in DOMAIN conf.UDP.Routers :
              ~NamesDropped(conf.UDP.Routers[k].Service,
                            configuration.UDP.Services, conf.UDP.Services, pvd)

---------------------------------------------------------------------------
(* C5 *)

\* the message is one sanitizeReferences has been through: sanitising it
\* gives it back
IsSanitized(msg) ==
    \A res \in SanitizeOutcomes(msg.ProviderName, msg.Configuration) :
        ~res.crashed /\ res.conf = msg.Configuration

\* C5: every message of a provider wrapped in MultiProvider is passed
\* through sanitizeReferences before it is put on the downstream
\* configuration channel: no message reaches that channel unsanitised.
C5_DownstreamMessagesAreSanitized ==
    /\ \A i \in DOMAIN configurationChan : IsSanitized(configurationChan[i])
    /\ \A i \in DOMAIN received : IsSanitized(received[i])

---------------------------------------------------------------------------
(* C6, C7 *)

\* number of entries the maps `kind' of all providers hold together
RECURSIVE EntriesTogether(_, _)
EntriesTogether(kind, providers) ==
    IF providers = {} THEN 0
    ELSE LET p == CHOOSE x \in providers : TRUE
         IN  Cardinality(DOMAIN configurations[p][kind])
             + EntriesTogether(kind, providers \ {p})

\* the merged entry is the entry `name' of provider p (a router may have
\* been given the default entry points)
SameDefinition(kind, key, p, name) ==
    /\ key \in DOMAIN merged[kind]
    /\ merged[kind][key].Origin = configurations[p][kind][name].Origin

\* C6: mergeConfiguration stores every router, middleware, service, model
\* and serversTransport of every source under localName@sourceName, and no
\* two of them under the same key: each merged map has as many entries as
\* the maps of the sources have together.
C6_QualifiedNamesAreUnique ==
    mergePc = "done" =>
        \A kind \in NamedMaps :
            /\ \A p \in DOMAIN configurations :
                  \A name \in DOMAIN configurations[p][kind] :
                      SameDefinition(kind, name \o <<At>> \o p, p, name)
            /\ Cardinality(DOMAIN merged[kind])
                  = EntriesTogether(kind, DOMAIN configurations)

\* two sources hold a service under the same local name, a third entry
\* carries an '@' in its local name; all are merged
C6_Witness ==
    /\ mergePc = "done"
    /\ \E p \in DOMAIN configurations : \E q \in DOMAIN configurations :
          /\ p # q
          /\ NameX \in DOMAIN configurations[p]["HTTP.Services"]
          /\ NameX \in DOMAIN configurations[q]["HTTP.Services"]
          /\ NameXa \in DOMAIN configurations[q]["HTTP.Services"]
    /\ Cardinality(DOMAIN merged["HTTP.Services"]) = 3

\* the sources that define the TLS name 'default' in a map
DefaultDefiners(kind) ==
    {p \in DOMAIN configurations : DefaultName \in DOMAIN configurations[p][kind]}

\* C7: the TLS name 'default' is accepted from at most one source, for
\* Options and Stores alike: with exactly one source defining it, the
\* merged configuration holds that source's definition under 'default';
\* with two or more, it holds no 'default' of that kind; every other name
\* is stored qualified with its source.
C7_DefaultTLSFromAtMostOneSource ==
    mergePc = "done" =>
        \A kind \in TLSMaps :
            /\ Cardinality(DefaultDefiners(kind)) = 1 =>
                  \A p \in DefaultDefiners(kind) :
                      SameDefinition(kind, DefaultName, p, DefaultName)
            /\ Cardinality(DefaultDefiners(kind)) >= 2 =>
                  DefaultName \notin DOMAIN merged[kind]
            /\ \A p \in DOMAIN configurations :
                  \A name \in DOMAIN configurations[p][kind] \ {DefaultName} :
                      SameDefinition(kind, name \o <<At>> \o p, p, name)

\* two sources define the default store, one the default options
C7_Witness ==
    /\ mergePc = "done"
    /\ Cardinality(DefaultDefiners("TLS.Stores")) = 2
    /\ Cardinality(DefaultDefiners("TLS.Options")) = 1
    /\ DefaultName \notin DOMAIN merged["TLS.Stores"]
    /\ DefaultName \in DOMAIN merged["TLS.Options"]

---------------------------------------------------------------------------
(* C8 - C10: applyModel *)

HasModel(epName) == ModelKey(epName) \in DOMAIN amCfg.Models

\* the routers of the output that are copies made for a model: a router the
\* loop leaves under its own name holds entry points without a model only
Copies == {k \in DOMAIN returned : \E i \in DOMAIN returned[k].EntryPoints :
                                      HasModel(returned[k].EntryPoints[i])}

\* the middleware list of a model, as configured
ModelMiddlewares(epName) ==
    ReadSlice(arrays, amCfg.Models[ModelKey(epName)].Middlewares)

\* what the copy of router `name' for entry point epName has to be
IsCopyOf(out, name, epName) ==
    LET rt == amCfg.Routers[name]
        mdl == amCfg.Models[ModelKey(epName)]
    IN  /\ out.Origin = name
        /\ out.EntryPoints = <<epName>>
        /\ out.TLS = (IF rt.TLS = NoTLS THEN mdl.TLS ELSE rt.TLS)
        /\ ReadSlice(arrays, out.Middlewares)
               = ModelMiddlewares(epName) \o ReadSlice(arrays, rt.Middlewares)

\* C8: every copy applyModel returns for a model has that one entry point,
\* the router's own TLS section or else the model's, and the model's
\* middlewares followed by the router's own, however many other routers were
\* expanded with the same model.
C8_CopyFieldsComeFromRouterAndModel ==
    (amPc = "done" /\ DOMAIN amCfg.Models # {}) =>
        \A k \in Copies :
            /\ Len(returned[k].EntryPoints) = 1
            /\ IsCopyOf(returned[k], returned[k].Origin, returned[k].EntryPoints[1])

\* the routers of the output that serve entry point epName for the router
\* that was named `name' in the input
Serving(name, epName) ==
    {k \in DOMAIN returned :
        /\ returned[k].Origin = name
        /\ \E i \in DOMAIN returned[k].EntryPoints :
              returned[k].EntryPoints[i] = epName}

\* C9: every (router, entry point) pair of the input is served by exactly one
\* router of the output of applyModel.
C9_EveryPairServedExactlyOnce ==
    (amPc = "done") =>
        \A name \in DOMAIN amCfg.Routers :
            \A i \in DOMAIN amCfg.Routers[name].EntryPoints :
                Cardinality(Serving(name, amCfg.Routers[name].EntryPoints[i])) = 1

\* the router the range loop visits in this step
Visited == CHOOSE name \in amTodo : name \notin amTodo'

\* C10: the iteration of applyModel for a router stores the copy for each of
\* its entry points with a model under "epName-name" when the router has
\* more than one entry point and under the router's name when it has one,
\* and stores the entry points without a model together under the router's
\* name, on a router that is otherwise the input's; it writes no other key.
C10_CopyNamesAndRemainder ==
    [][(amPc = "range" /\ amTodo' # amTodo) =>
        LET name == Visited
            rt   == amCfg.Routers[name]
            eps  == rt.EntryPoints
            NoModel(epName) == ~HasModel(epName)
            rest == SelectSeq(eps, NoModel)
            copyKey(i) == IF Len(eps) > 1 THEN eps[i] \o <<"-">> \o name ELSE name
            copyKeys == {copyKey(i) : i \in {j \in DOMAIN eps : HasModel(eps[j])}}
        IN  /\ \A i \in DOMAIN eps :
                  HasModel(eps[i]) =>
                      /\ copyKey(i) \in DOMAIN rts'
                      /\ rts'[copyKey(i)].Origin = name
                      /\ rts'[copyKey(i)].EntryPoints = <<eps[i]>>
            /\ rest # <<>> =>
                  /\ name \in DOMAIN rts'
                  /\ rts'[name] = [rt EXCEPT !.EntryPoints = rest]
            /\ \A k \in DOMAIN rts' :
                  k \notin copyKeys \cup (IF rest # <<>> THEN {name} ELSE {}) =>
                      k \in DOMAIN rts /\ rts'[k] = rts[k]
            /\ DOMAIN rts \subseteq DOMAIN rts']_vars

\* the router "r" on entry points w and v was visited with a model for w
\* only: its copy is stored as "w-r", its remainder as "r"
C10_Witness ==
    /\ amPc = "range"
    /\ RouterR \in DOMAIN amCfg.Routers
    /\ RouterR \notin amTodo
    /\ amCfg.Routers[RouterR].EntryPoints = <<EntryPointW, EntryPointV>>
    /\ DOMAIN amCfg.Models = {ModelKey(EntryPointW)}
    /\ RouterWR \in DOMAIN rts /\ rts[RouterWR].Origin = RouterR
    /\ RouterR \in DOMAIN rts /\ rts[RouterR].EntryPoints = <<EntryPointV>>

---------------------------------------------------------------------------
(* C12, C14: ProviderAggregator *)

\* the providers AddProvider has put in the aggregator
Added ==
    {aggregator.providers[i] : i \in DOMAIN aggregator.providers}
        \cup ({aggregator.fileProvider, aggregator.internalProvider} \ {NoProvider})

\* the names of the providers whose Provide was invoked before the i-th
\* invocation
InvokedBefore(i) == {invoked[j] : j \in 1..(i - 1)}

\* C12: the Provide of the file provider is invoked before that of any other
\* provider, and the Provide of the internal provider only after that of
\* every other provider of the aggregator has been invoked.
C12_FileFirstInternalLast ==
    \A i \in DOMAIN invoked :
        /\ invoked[i] = aggregator.fileProvider.name => i = 1
        /\ invoked[i] = aggregator.internalProvider.name =>
               \A prd \in Added \ {aggregator.internalProvider} :
                   prd.name \in InvokedBefore(i)

\* C14: once Provide has returned and every goroutine has run, each provider
\* whose Init succeeded was added and had its Provide invoked, each of those
\* whose Provide succeeded is started, the providers whose Init or Provide
\* failed are the only ones left out, and Provide returned nil.
C14_FailingProviderAloneIsSkipped ==
    /\ aggPc = "done" => provideErr = Nil
    /\ (aggPc = "done" /\ goroutines = {}) =>
          \A i \in DOMAIN configured :
              LET prd == configured[i]
              IN  /\ prd \in Added <=> ~prd.initErr
                  /\ prd.name \in Range(invoked) <=> ~prd.initErr
                  /\ prd.name \in startedPrds <=> (~prd.initErr /\ ~prd.provideErr)

\* one provider failed its Init, one its Provide, and a third one was
\* configured after them and is started
C14_Witness ==
    /\ aggPc = "done"
    /\ goroutines = {}
    /\ \E i, j, k \in DOMAIN configured :
          /\ i < k /\ j < k
          /\ configured[i].initErr
          /\ ~configured[j].initErr /\ configured[j].provideErr
          /\ configured[k].name \in startedPrds

---------------------------------------------------------------------------
(* C11, C13: maybeThrottledProvide *)

Throttled == thPc = "provided" /\ providerThrottleDuration # 0

\* the messages are numbered in emission order: the received ones are a
\* subsequence of the emitted ones when their numbers increase
ReceivedInEmissionOrder ==
    /\ \A i \in DOMAIN thReceived : thReceived[i] \in 1..thEmitted
    /\ \A i, j \in DOMAIN thReceived : i < j => thReceived[i] < thReceived[j]

LastEmittedReceived ==
    thReceived # <<>> /\ thReceived[Len(thReceived)] = thPrd.toEmit

\* C11: what the consumer receives from a throttled provider is a
\* subsequence of what the provider emitted, in emission order, and once
\* the provider has emitted its last message the consumer receives it at
\* last, unless the goroutine is cancelled.
C11_ConsumerSeesSubsequenceEndingInLast ==
    /\ [](Throttled => ReceivedInEmissionOrder)
    /\ [](Throttled /\ thPrd.toEmit > 0 /\ thEmitted = thPrd.toEmit
            => <>(thCtxDone \/ LastEmittedReceived))

\* three messages were emitted, the second was dropped in the ring channel,
\* the third was received, and nothing was cancelled
C11_Witness ==
    /\ Throttled
    /\ ~thCtxDone
    /\ thEmitted = 3
    /\ thPrd.toEmit = 3
    /\ thReceived = <<1, 3>>

\* C13: with a non-zero throttle duration the goroutine never delivers a
\* message before the full duration has passed since its previous delivery.
C13_OneDeliveryPerThrottleDuration ==
    Throttled => (lastGap = -1 \/ lastGap >= providerThrottleDuration)

\* a second message was delivered under the longest throttle duration
C13_Witness ==
    /\ Throttled
    /\ providerThrottleDuration = MaxDuration
    /\ lastGap >= MaxDuration
    /\ Len(thChan) + Len(thReceived) >= 2

---------------------------------------------------------------------------
(* C15, C16, C17: connPool *)

Idle == Range(idleConns)

\* expired or marked broken, as the fields of the connection stand
Unhealthy(id) == isExpired(conns[id], idleConnTimeout) \/ conns[id].broken

\* AcquireConn returns to goroutine c in this step
Returns(c) == clients[c].pc # "hold" /\ clients'[c].pc = "hold"

TimesIdle(idle, id) == Cardinality({i \in DOMAIN idle : idle[i] = id})

\* ReleaseConn(co) of goroutine c returns in this step
Releases(c) == clients[c].pc = "hold" /\ clients'[c].pc = "idle"

\* C16: the idle channel never holds more than maxIdleConn connections, nor
\* one connection twice, nor a closed one; when ReleaseConn(co) returns, co
\* is in the idle channel once or closed, not both; and ReleaseConn can
\* always take its step.
C16_PoolBoundedAndReleaseExact ==
    /\ [](/\ Len(idleConns) <= maxIdleConn
          /\ \A id \in Idle : TimesIdle(idleConns, id) = 1 /\ ~conns[id].closed)
    /\ [][\A c \in Clients :
            Releases(c) =>
                LET id == clients[c].co
                IN  /\ TimesIdle(idleConns', id) \in {0, 1}
                    /\ (TimesIdle(idleConns', id) = 1) # conns'[id].closed]_vars
    /\ [](\A c \in Clients : clients[c].pc = "hold" => ENABLED ReleaseConn(c))

\* the idle channel is full and holds a connection that a goroutine
\* released, while the other connection was closed
C16_Witness ==
    /\ Len(idleConns) = maxIdleConn
    /\ \E id \in Idle : conns[id].idleCh = 1
    /\ \E id \in DOMAIN conns : conns[id].closed

\* C17: when cleanIdleConns has run from its call to its return with nothing
\* else happening, no connection of the idle channel is expired or broken
\* and every healthy connection that was idle at the call is still idle.
C17_SweepLeavesOnlyHealthy ==
    sweep.phase = "done" =>
        /\ \A id \in Idle : ~Unhealthy(id)
        /\ sweep.healthy \subseteq Idle

---------------------------------------------------------------------------
(* C18, C19, C20: brotliResponseWriter *)

\* the response is one the writer may compress: the handler set no
\* Content-Encoding, and its Content-Type, when it set one, is well formed
\* and not excluded
Eligible ==
    /\ handler.ce = ""
    /\ \/ rw.header.ct = ""
       \/ ~ParseMediaType(rw.header.ct).err /\ ~isExcluded(brw, rw.header.ct)

IsPrefix(s, t) == Len(s) <= Len(t) /\ s = SubSeq(t, 1, Len(s))

\* C18: when Close has returned for a response that may be compressed and
\* whose body reached minSize, the encoder was handed the written chunks
\* in the order of the writes, byte for byte, it was closed exactly once,
\* and the headers sent downstream carry Content-Encoding: br and
\* Vary: Accept-Encoding and no Content-Length.
C18_EncoderGetsBodyInOrder ==
    (handler.pc = "closed" /\ Eligible /\ handler.offered >= brw.minSize) =>
        /\ bw.in = handler.written
        /\ bw.closed = 1
        /\ rw.sent.ce = "br"
        /\ rw.sent.vary = <<"Accept-Encoding">>
        /\ ~rw.sent.cl

\* no call has reached the wrapped writer or the encoder
NothingDownstream == ~rw.wroteHeader /\ rw.body = <<>> /\ bw.in = <<>>

\* the step of the Write that starts the compression
StartsCompression == ~brw.compressionStarted /\ brw'.compressionStarted

\* C19: for a response that may be compressed, compression has started
\* exactly when the bytes passed to Write amount to minSize or more; as
\* long as it has not started and the handler is running, nothing has gone
\* downstream; the Write that starts it hands the buffered bytes and then
\* its own chunk to the encoder; and once it has started, it stays
\* started, the writer does not turn to skipping, and no byte goes
\* downstream without passing through the encoder.
C19_CompressionStartsAtMinSize ==
    /\ [](Eligible =>
            /\ brw.compressionStarted <=> handler.offered >= brw.minSize
            /\ (handler.pc = "serve" /\ ~brw.compressionStarted) => NothingDownstream)
    /\ [][(Eligible /\ StartsCompression) =>
            /\ IsPrefix(bw'.in, handler'.written)
            /\ ~bw.short => bw'.in = handler'.written]_vars
    /\ [][(Eligible /\ brw.compressionStarted) =>
            /\ brw'.compressionStarted
            /\ ~brw'.skipCompression
            /\ \A i \in 1..Len(rw'.body) : rw'.body[i].enc = "br"]_vars

\* C20: when Close has returned for a response for which the handler set no
\* Content-Encoding and passed fewer than minSize bytes to Write (none at
\* all included), the body sent downstream is the written bytes as they
\* are, and the headers sent downstream have no Vary and carry
\* Content-Encoding: identity.
C20_SmallBodyPassesAsIdentity ==
    (handler.pc = "closed" /\ handler.ce = "" /\ handler.offered < brw.minSize) =>
        /\ rw.body = Raw(handler.written)
        /\ rw.wroteHeader
        /\ rw.sent.vary = <<>>
        /\ rw.sent.ce = "identity"

---------------------------------------------------------------------------
(* C21, C22, C23: compress middleware and brotliResponseWriter *)

\* the media type of the response's Content-Type is one the middleware
\* excludes: application/grpc or one of the configured list
ExcludedResponse ==
    /\ ~ParseMediaType(rw.header.ct).err
    /\ contains(compressConf.excludes, ParseMediaType(rw.header.ct).mediaType)

\* C21: when ServeHTTP has handed a request to the brotli handler and the
\* media type of the response's Content-Type is application/grpc or is in
\* the configured excluded list, no byte is handed to the brotli encoder
\* and Content-Encoding: br is not set, whatever the size of the body.
C21_ExcludedResponseIsNotCompressed ==
    (route = "brotli" /\ ExcludedResponse) =>
        /\ bw.in = <<>>
        /\ rw.header.ce # "br"
        /\ rw.sent.ce # "br"

\* C22: a call of Flush made before compression has started, on a writer
\* that has not turned to skipping, leaves the wrapped writer and the
\* encoder as they are (no status, no headers, no bytes), and leaves the
\* buffer and the flags skipCompression and compressionStarted unchanged.
C22_FlushBeforeStartDoesNothing ==
    [][(Flush /\ ~brw.compressionStarted /\ ~brw.skipCompression) =>
            /\ rw' = rw
            /\ bw' = bw
            /\ brw'.buf = brw.buf
            /\ brw'.skipCompression = brw.skipCompression
            /\ brw'.compressionStarted = brw.compressionStarted]_vars

\* C23: when Close has returned, the status code sent downstream is the
\* code the handler passed to WriteHeader, or 200 when it passed none.
C23_StatusCodeIsTheHandlers ==
    handler.pc = "closed" => (rw.wroteHeader /\ rw.code = brw.statusCode)

---------------------------------------------------------------------------
(* C24, C25, C26: status updates of the clientWrapper *)

ByOthers(parents) == SelectSeq(parents, LAMBDA e : e.ControllerName # controllerName)
ByUs(parents)     == SelectSeq(parents, LAMBDA e : e.ControllerName = controllerName)

\* the step is a call of UpdateStatus
CallsUpdateStatus == stWrites' = stWrites + 1

\* C24: in every status that is written for an HTTPRoute, GRPCRoute,
\* TCPRoute or TLSRoute, the parent statuses that carry another
\* controller's name are those of the status that was read, unchanged, and
\* the parent statuses that carry this controller's name are the newly
\* computed ones.
C24_OtherControllersEntriesKept ==
    [][(CallsUpdateStatus /\ stKind \in RouteKinds) =>
            /\ stLast'.read = objects[1].Status
            /\ ByOthers(stLast'.status.Parents) = ByOthers(objects[1].Status.Parents)
            /\ ByUs(stLast'.status.Parents) = stArg.Parents]_vars

\* a route status was written whose current status held an entry of
\* another controller and an entry of this controller that the new status
\* replaces
C24_Witness ==
    /\ stKind \in RouteKinds
    /\ stLast.result # "none"
    /\ ByOthers(stLast.read.Parents) # <<>>
    /\ ByUs(stLast.read.Parents) # <<>>
    /\ ByUs(stLast.read.Parents) # stArg.Parents
    /\ stArg.Parents # <<>>

\* the comparison of two statuses: conditions by Type, Reason, Status,
\* Message and ObservedGeneration, listeners by name, conditions and
\* AttachedRoutes, parent statuses by parent, controller and conditions
Compared(c) == [c EXCEPT !.LastTransitionTime = 0]

SameConditions(a, b) ==
    [i \in 1..Len(a) |-> Compared(a[i])] = [i \in 1..Len(b) |-> Compared(b[i])]

SameListeners(a, b) ==
    /\ Len(a) = Len(b)
    /\ \A i \in 1..Len(a) : \E j \in 1..Len(b) :
           /\ a[i].Name = b[j].Name
           /\ SameConditions(a[i].Conditions, b[j].Conditions)
           /\ a[i].AttachedRoutes = b[j].AttachedRoutes

Times(parents, e) ==
    Cardinality({i \in 1..Len(parents) :
                    /\ parents[i].ParentRef = e.ParentRef
                    /\ parents[i].ControllerName = e.ControllerName
                    /\ SameConditions(parents[i].Conditions, e.Conditions)})

SameParents(a, b) ==
    /\ Len(a) = Len(b)
    /\ \A i \in 1..Len(a) : Times(a, a[i]) = Times(b, a[i])

\* the newly computed status of the object equals its current status
StatusUnchanged ==
    LET current == objects[1].Status
    IN  /\ objects[1].found
        /\ SameConditions(current.Conditions, stArg.Conditions)
        /\ SameListeners(current.Listeners, stArg.Listeners)
        /\ SameParents(current.Parents, ByOthers(current.Parents) \o stArg.Parents)

\* C25: an attempt that finds the newly computed status equal to the
\* current one makes no UpdateStatus call, whatever the kind of the object.
C25_NoWriteWhenUnchanged ==
    [][(stAttempts' = stAttempts + 1 /\ StatusUnchanged) => ~CallsUpdateStatus]_vars

\* C26: every attempt reads the object again and writes a copy that it made
\* from what it read, the object of the cache staying as it is; an attempt
\* follows another only after a conflict, any other result ends the update
\* with that result; there are no more than DefaultRetrySteps attempts and
\* the update ends; an update in a namespace that is not watched ends with
\* an error before any read or write.
C26_OptimisticRetryLoop ==
    /\ [](/\ stReads = stAttempts
          /\ stAttempts <= DefaultRetrySteps
          /\ stErr = "not watched" => (stReads = 0 /\ stWrites = 0)
          /\ (stPc = "done" /\ stKind # "GatewayClass" /\ ~stWatched) => stErr = "not watched")
    /\ [][stAttempts' = stAttempts + 1 =>
            /\ objects'[1] = objects[1]
            /\ CallsUpdateStatus => (stLast'.obj # 1 /\ stLast'.read = objects[1].Status)
            /\ stPc' = "retry" => stErr' = "conflict"
            /\ stErr' # "conflict" => stPc' = "done"]_vars
    /\ <>(stPc = "done")

\* the update was refused with a conflict, the cached object was replaced,
\* and a later attempt wrote with success
C26_Witness ==
    /\ stPc = "done"
    /\ stErr = "nil"
    /\ stAttempts >= 2
    /\ stWrites >= 2
    /\ stSynced

---------------------------------------------------------------------------
(* C27: the rendering of a GRPC route match *)

\* the method rule as stated: PathPrefix of / without a method or with a
\* method that names neither a service nor a method, a PathRegexp of
\* /service/method otherwise, with [^/]+ for the part that is missing
StatedMethodRule(method) ==
    IF method = NoMethod \/ (method.Service = <<>> /\ method.Method = <<>>)
    THEN StrPathPrefix
    ELSE <<"P", "a", "t", "h", "R", "e", "g", "e", "x", "p", "(", Backquote, "/">> \o (IF method.Service = <<>> THEN StrAnyPart ELSE method.Service)
           \o <<"/">> \o (IF method.Method = <<>> THEN StrAnyPart ELSE method.Method)
           \o <<Backquote, ")">>

\* one Header or HeaderRegexp rule per header match
StatedHeaderRule(header) ==
    (IF header.Type = RegularExpression THEN <<"H", "e", "a", "d", "e", "r", "R", "e", "g", "e", "x", "p", "(", Backquote>> ELSE <<"H", "e", "a", "d", "e", "r", "(", Backquote>>)
        \o header.Name \o <<Backquote, ",", Backquote>> \o header.Value \o <<Backquote, ")">>

\* the Host rule of the hostnames when there are any, the method rule, the
\* header rules in declared order
StatedPredicates(hostnames, m) ==
    (IF hostnames = <<>> THEN <<>>
     ELSE << <<"H", "o", "s", "t", "(", Backquote>> \o hostnames[1] \o <<Backquote, ")">> >>)
        \o <<StatedMethodRule(m.Method)>>
        \o [i \in 1..Len(m.Headers) |-> StatedHeaderRule(m.Headers[i])]

\* C27: the rule that buildGRPCMatchRule returns is the Host rule of the
\* hostnames (when there are any), then the method rule, then one Header or
\* HeaderRegexp rule per header match in declared order, joined by " && ",
\* the method rule being PathPrefix of / for a match without method or with a
\* method that has neither service nor method name, and otherwise the
\* PathRegexp of /service/method with [^/]+ in place of the missing part
C27_MatchRuleIsRendered ==
    gmPc = "done" =>
        gmRule = Join(StatedPredicates(gmHostnames, gmMatch), StrAnd)

---------------------------------------------------------------------------
(* C28: the priority of the routers of a GRPCRoute *)

\* the ladder of the tests: the length of the match's predicates joined by
\* " && " (15 without method, 27 with a service foobar, 28 with service and
\* method foobar, 38 with one exact header foo=bar, 44 with that header as a
\* regular expression, 63 with two exact headers), to which a hostname adds
\* its length (7 for foo.com)
StatedPriority(hostnames, m) ==
    Len(Join(StatedPredicates(<<>>, m), StrAnd))
        + (IF hostnames = <<>> THEN 0 ELSE Len(hostnames[1]))

\* the matches of the rules for which loadGRPCRoute has built a router
RoutedMatches ==
    {<<ri, mi>> \in (1..Len(grRules)) \X (1..MaxMatches) :
        /\ mi <= Len(grRules[ri].Matches)
        /\ (ri = Len(grRules) /\ grPc = "matches") => mi <= grMi}

\* the router that loadGRPCRoute has built for the mi-th match of the ri-th
\* rule
RouterOf(ri, mi) ==
    grConf.Routers[makeRouterName(
        buildGRPCMatchRule(grHostnames, grRules[ri].Matches[mi]),
        makeRouteKey(ri - 1))]

\* C28: every router built from a match of a GRPCRoute carries the priority
\* that the ladder of the tests gives to its match and hostname (15, 27, 28,
\* 38, 44, 63 without hostname, 7 more with the hostname foo.com), so that a
\* longer literal match outranks a shorter one
C28_RouterPriorityFollowsLadder ==
    \A p \in RoutedMatches :
        RouterOf(p[1], p[2]).Priority
            = StatedPriority(grHostnames, grRules[p[1]].Matches[p[2]])

---------------------------------------------------------------------------
(* C29: the unresolved backendRefs of a GRPCRoute *)

\* why a backendRef cannot be resolved, "" when it can
StatedFailure(backendRef) ==
    IF ~backendRef.granted THEN "RefNotPermitted"
    ELSE IF backendRef.Kind \notin {Nil, "Service"} \/ backendRef.Group \notin {Nil, "", groupCore}
    THEN "InvalidKind"
    ELSE IF backendRef.Port = 0 THEN "UnsupportedProtocol"
    ELSE IF backendRef.service # "found" \/ backendRef.slices = 0 THEN "BackendNotFound"
    ELSE ""

\* the unresolved backendRefs of the route, as <<rule, ref>> indexes
FailingRefs ==
    {<<ri, j>> \in (1..Len(grRules)) \X (1..MaxBackendRefs) :
        /\ j <= Len(grRules[ri].BackendRefs)
        /\ StatedFailure(grRules[ri].BackendRefs[j]) # ""}

\* the last of them in the order of the rules and of their refs
LastFailingRef ==
    CHOOSE p \in FailingRefs :
        \A q \in FailingRefs : q[1] < p[1] \/ (q[1] = p[1] /\ q[2] <= p[2])

\* the rule's weighted service has one child per ref, and the one of the j-th
\* ref answers 500
HasErrorChild(ri, j) ==
    LET name == makeRouteKey(ri - 1) \o <<"-", "w", "r", "r">>
    IN  /\ name \in DOMAIN grConf.Services
        /\ Len(grConf.Services[name].Weighted) = Len(grRules[ri].BackendRefs)
        /\ grConf.Services[name].Weighted[j].Status = <<StatusInternalServerError>>

\* C29: when loadGRPCRoute has returned, the weighted service of a rule has
\* exactly one child for each of the rule's backendRefs that cannot be
\* resolved, answering 500, and, when a ref of the route cannot be resolved,
\* the ResolvedRefs condition is False with the reason of the last failing
\* ref (RefNotPermitted, InvalidKind, UnsupportedProtocol or BackendNotFound),
\* whatever the rules and matches that come after it
C29_UnresolvedRefsAreReported ==
    grPc = "done" =>
        /\ \A p \in FailingRefs : HasErrorChild(p[1], p[2])
        /\ FailingRefs # {} =>
              grCondition = ResolvedRefs("False",
                  StatedFailure(grRules[LastFailingRef[1]].BackendRefs[LastFailingRef[2]]))

---------------------------------------------------------------------------
(* C30: the order of the middlewares of a router of a GRPCRoute *)

\* the name of the middleware of the i-th filter of the router r: the one
\* made for a RequestHeaderModifier, the one an ExtensionRef refers to
StatedMiddlewareName(filters, i) ==
    IF filters[i].Type = StrExtensionRef THEN filters[i].ext.name
    ELSE <<"r", "-">> \o <<"r", "e", "q", "u", "e", "s", "t", "h", "e", "a", "d", "e", "r", "m", "o", "d", "i", "f", "i", "e", "r">> \o <<"-">> \o FormatInt(i - 1)

\* C30: the middleware names that loadGRPCMiddlewares returns for the filters
\* of a rule are the names of the filters' middlewares in the order in which
\* the filters are declared, whatever the run
C30_MiddlewaresInDeclaredOrder ==
    (mwPc = "done" /\ ~mwRes.err) =>
        mwRes.names = [i \in 1..Len(mwFilters) |-> StatedMiddlewareName(mwFilters, i)]

---------------------------------------------------------------------------
(* C31: AcquireConn returns *)

\* goroutine c is inside AcquireConn
Acquiring(c) == clients[c].pc \in {"wait", "retry"}

\* C31: every call of AcquireConn eventually returns, with a connection or
\* with the error of the dial, when every dial returns, whatever the other
\* goroutines and the janitor do; and a dial that fails leaves the idle
\* channel as it is
C31_AcquireConnReturns ==
    /\ \A c \in Clients : Acquiring(c) ~> ~Acquiring(c)
    /\ [][\A c \in Clients :
            (dials[c] # "none" /\ dials'[c] = "none" /\ Len(conns') = Len(conns))
                => idleConns' = idleConns]_vars

---------------------------------------------------------------------------
(* C32: a connection of the idle pool that its peer closes *)

\* connection id sits in the idle channel and its peer has closed it
ClosedByPeerInPool(id) ==
    /\ id \in DOMAIN conns
    /\ id \in Range(idleConns)
    /\ id \in peerClosed

\* C32: a connection that its peer closes while it sits in the idle pool is
\* eventually marked broken (unless the pool closes it first), whether it was
\* ever acquired or not, and a connection marked broken stays marked for as
\* long as the pool has it
C32_PeerCloseMarksBroken ==
    /\ \A id \in 1..MaxDials :
          ClosedByPeerInPool(id) ~>
              (id \in DOMAIN conns /\ (conns[id].broken \/ conns[id].closed))
    /\ [][\A id \in DOMAIN conns :
            (conns[id].broken /\ ~conns'[id].closed) => conns'[id].broken]_vars

---------------------------------------------------------------------------
(* C33: the forwarding goroutine after the pool is stopped *)

\* C33: once the context of the pool is cancelled, the goroutine that
\* forwards the messages of a throttled provider eventually returns, also
\* when it holds a message and nothing receives from configurationChan any
\* more
C33_ForwarderStopsAfterCancel ==
    thCtxDone ~> (thFwPc \in {"exit", "none"})

---------------------------------------------------------------------------
(* C34: what the brotli writer commits downstream *)

\* the bytes of the downstream body are all raw, or all brotli-encoded, as
\* the committed Content-Encoding says
BodyAsCommitted ==
    \A i \in DOMAIN rw.body : (rw.body[i].enc = "br") <=> (rw.sent.ce = "br")

\* C34: in every sequence of WriteHeader, Write, Flush and Close the headers
\* of the downstream response are committed once and no later than its first
\* body byte, and the downstream body is brotli-encoded exactly when the
\* committed headers carry Content-Encoding: br
C34_BodyMatchesCommittedEncoding ==
    /\ [](rw.body # <<>> => rw.wroteHeader)
    /\ [](rw.wroteHeader => BodyAsCommitted)
    /\ [][rw.wroteHeader =>
            (rw'.wroteHeader /\ rw'.sent = rw.sent /\ rw'.code = rw.code)]_vars

---------------------------------------------------------------------------
(* C35: the connections of the idle pool *)

\* C35: every connection in the idle pool has active = false and an idleAt
\* that is the time of its last ReleaseConn, or of its dial when it was
\* never released
C35_IdleConnsAreMarkedIdle ==
    \A i \in DOMAIN idleConns :
        /\ ~active[idleConns[i]]
        /\ conns[idleConns[i]].sinceIdleAt = sinceRelease[idleConns[i]]

---------------------------------------------------------------------------
(* C36: sanitizeReferences on references that form a cycle *)

\* middleware name m of the message is in a cycle of Chain references
\* that stays inside the message: it reaches itself through the chain
\* lists, by bare names or names qualified with the source of the message
RECURSIVE ChainReach(_, _, _)
ChainReach(from, n, mws) ==
    IF n = 0 THEN {}
    ELSE LET next == {Split(r, At)[1] :
                         r \in {x \in UNION {Range(mws[f].ChainMiddlewares) :
                                                f \in {g \in from : mws[g].Chain}} :
                                    LET parts == Split(x, At)
                                    IN  Len(parts) = 1 \/ parts[2] = pvd}}
                     \cap DOMAIN mws
         IN  next \cup ChainReach(next, n - 1, mws)

InChainCycle(m) ==
    m \in ChainReach({m}, MaxItems, configuration.HTTP.Middlewares)

\* C36: sanitizeReferences returns on every message, and a middleware that
\* is part of a cycle of Chain references is not in the configuration it
\* returns
C36_CyclesEndAndAreDropped ==
    /\ sanPc # "crashed"
    /\ sanPc = "done" =>
          \A m \in DOMAIN configuration.HTTP.Middlewares :
              InChainCycle(m) => m \notin DOMAIN conf.HTTP.Middlewares

\* a message with two middlewares whose Chain lists name each other has
\* been sanitized
C36_Witness ==
    /\ sanPc = "done"
    /\ \E m \in DOMAIN configuration.HTTP.Middlewares :
       \E n \in DOMAIN configuration.HTTP.Middlewares :
          /\ m # n
          /\ InChainCycle(m)
          /\ InChainCycle(n)

---------------------------------------------------------------------------
(* C37: what loadGRPCBackendRef returns *)

\* the group of the ref is core and its kind is Service, an absent or empty
\* group being core and an absent kind Service
IsCoreService(ref) ==
    /\ ref.Group \in {Nil, "", groupCore}
    /\ ref.Kind \in {Nil, "Service"}

\* the Kubernetes service, its port and its endpoint slices are found
BackendFound(ref) == ref.service = "found" /\ ref.slices > 0

\* the reason of the first check that fails, in the order of the checks
StatedReason(ref) ==
    IF ~ref.granted THEN "RefNotPermitted"
    ELSE IF ~IsCoreService(ref) THEN "InvalidKind"
    ELSE IF ~(ref.Port > 0) THEN "UnsupportedProtocol"
    ELSE "BackendNotFound"

\* C37: loadGRPCBackendRef returns a service, and no condition, only when
\* the reference is granted, the ref is a core Service with a port above 0
\* and the service, its port and its endpoint slices are found; otherwise
\* it returns no service and a ResolvedRefs condition of status False with
\* the reason of the first failing check, in the order RefNotPermitted,
\* InvalidKind, UnsupportedProtocol, BackendNotFound
C37_BackendRefChecksInOrder ==
    bkPc = "done" =>
        IF bkRef.granted /\ IsCoreService(bkRef) /\ bkRef.Port > 0
           /\ BackendFound(bkRef)
        THEN bkRes.svc # NoService /\ bkRes.cond = NoCondition
        ELSE /\ bkRes.svc = NoService
             /\ bkRes.cond = ResolvedRefs("False", StatedReason(bkRef))

\* a ref that fails every check has been loaded
C37_Witness ==
    /\ bkPc = "done"
    /\ ~bkRef.granted
    /\ bkRef.Kind = "TraefikService"
    /\ bkRef.Port = 0
    /\ bkRef.service = "missing"
    /\ bkRes.cond = ResolvedRefs("False", "RefNotPermitted")

---------------------------------------------------------------------------
(* C38: the routers of a GRPCRoute that answer 500 *)

\* the service that router rn points at has a child that answers 500: the
\* error service of a filter that cannot be loaded, or the weighted service
\* of a rule with an unresolved backendRef
PointsAtErrorService(rn) ==
    LET name == grConf.Routers[rn].Service
    IN  /\ name \in DOMAIN grConf.Services
        /\ \E i \in DOMAIN grConf.Services[name].Weighted :
              grConf.Services[name].Weighted[i].Status = <<StatusInternalServerError>>

\* C38: when loadGRPCRoute has returned a configuration in which a router
\* points at a service that answers 500, the ResolvedRefs condition it
\* returns with it has the status False
C38_ErrorServiceMeansUnresolved ==
    grPc = "done" =>
        ((\E rn \in DOMAIN grConf.Routers : PointsAtErrorService(rn))
            => grCondition.Status = "False")

---------------------------------------------------------------------------
(* C39: the rule of a GRPC route match is well formed *)

\* rule is not empty and each " && " of it stands between two predicates
\* that are not empty: none at its start, none at its end, no two in a row
WellJoined(rule) ==
    /\ rule # <<>>
    /\ ~HasPrefix(rule, StrAnd)
    /\ ~(Len(rule) >= Len(StrAnd)
         /\ SubSeq(rule, Len(rule) - Len(StrAnd) + 1, Len(rule)) = StrAnd)
    /\ ~Contains(rule, StrAnd \o StrAnd)

\* C39: for every match and every list of hostnames buildGRPCMatchRule
\* returns a rule that is not empty and in which each " && " separates two
\* non-empty predicates, and a method match of type RegularExpression is
\* rendered as the Exact match of the same service and method is
C39_RuleIsWellFormed ==
    gmPc = "done" =>
        /\ WellJoined(gmRule)
        /\ (gmMatch.Method # NoMethod /\ gmMatch.Method.Type = RegularExpression) =>
              gmRule = buildGRPCMatchRule(gmHostnames,
                           [gmMatch EXCEPT !.Method.Type = Exact])

---------------------------------------------------------------------------
(* C40: the effective throttle duration, and the provider without throttling *)

\* the messages 1..n in the order of their emission
Emitted(n) == [i \in 1..n |-> i]

\* C40: the effective throttle duration of a provider is the one it
\* declares, a declared zero included, and the global default when it
\* declares none; when it is zero there is no goroutine and no ring channel
\* between the provider and configurationChan: every message the provider
\* has emitted is in configurationChan or received, in the order of
\* emission, none dropped and none held back
C40_EffectiveDurationAndPassThrough ==
    thPc = "provided" =>
        /\ providerThrottleDuration =
              (IF thPrd.throttled THEN thPrd.duration ELSE defaultDuration)
        /\ providerThrottleDuration = 0 =>
              /\ thFwPc = "none"
              /\ rc = <<>>
              /\ thReceived \o thChan = Emitted(thEmitted)

\* a provider that declares a duration of zero under a non-zero default has
\* emitted two messages and both have been received
C40_Witness ==
    /\ thPc = "provided"
    /\ thPrd.throttled
    /\ thPrd.duration = 0
    /\ defaultDuration > 0
    /\ thEmitted = 2
    /\ thReceived = <<1, 2>>

===========================================================================
